---- MODULE Spec2Model ----
(***************************************************************************)
(* Model of the Bybit ingestion engine (src/bybit_client.py,               *)
(* src/database.py): the websocket connection loop with its reconnect      *)
(* backoff, the bookkeeping of the three subscription sets by the          *)
(* per-session subscribe, the retry manager, the pairs updater and the     *)
(* tick handler, the paginated historical backfill, the maintenance of the *)
(* candle window with the hourly cleanup, and the two monitors (of the     *)
(* streams per symbol and of the messages of the session).                 *)
(*                                                                         *)
(* The program is asyncio code: one task runs at a time and a task only    *)
(* gives up control at an await.  Each action below is the code one task   *)
(* runs between two awaits.                                                *)
(***************************************************************************)
EXTENDS Integers, FiniteSets, Sequences, TLC

\* ------------------------------------------------------------------ bounds

\* Number of distinct symbols the watchlist can ever hold.
NumSymbols == 2

\* In Spec, the number of connection failures in a row the network produces.
MaxConsecutiveFailures == 1

\* In SpecBackfill, the longest backfilled range, in pages of max_limit minutes.
MaxPages == 2

\* Half minutes the wall clock advances in the window maintenance specification.
MaxClockSteps == 2

\* Desired symbols in the stream monitor specification.
MaxHealthSymbols == 10

\* Candles delivered to storage in the storage specification.
MaxDeliveries == 3

\* The largest watchlist in the specification of the batched subscribe.
MaxSubscribeSymbols == 101

\* The minutes the candles formatted in the candle specification start in.
MaxCandleMinutes == 3

\* Ticks delivered in the specification of the closed candles' evaluation, and
\* the minutes they start in.
MaxAlertTicks == 4
MaxAlertMinutes == 2

\* The longest range, in minutes, backfilled from an exchange that answers with
\* any rows.
MaxPagingMinutes == 5

Symbols == 1..NumSymbols

\* ------------------------------------------------------- program constants

max_reconnect_attempts == 10
reconnect_delay == 5
max_delay == 60
batch_size == 50
max_limit == 1000
minute_ms == 60000

Min(a, b) == IF a < b THEN a ELSE b

Max(a, b) == IF a > b THEN a ELSE b

\* ------------------------------------------------------------------- state

VARIABLES
    trading_pairs,          \* self.trading_pairs: the desired set
    subscribed_pairs,       \* self.subscribed_pairs
    subscription_pending,   \* self.subscription_pending
    failed_subscriptions,   \* self.failed_subscriptions
    is_running,             \* self.is_running
    websocket_connected,    \* self.websocket_connected
    websocket,              \* state of the transport self.websocket refers to
    reconnect_attempts,     \* self.reconnect_attempts
    delay,                  \* argument of the pending asyncio.sleep(delay) of the loop
    pc,                     \* where each task is suspended
    sending,                \* per task: the websocket.send it is awaiting
    last_stream_data,       \* symbols whose self.last_stream_data entry is not stale
    upd_new,                \* handle_pairs_update's parameter new_pairs
    upd_removed,            \* handle_pairs_update's parameter removed_pairs
    last,                   \* the operation the last step completed (what the log shows)
    last_message_time,      \* how long ago self.last_message_time is: "none" (never set),
                            \* "fresh", "warning" (more than 90 s), "force" (more than 300 s)
    ping_task,              \* _monitor_connection of the session: "none", "running", or
                            \* "done" once it has left its loop
    bf                      \* the candles: a backfill call and the storage it writes, the
                            \* window maintenance, or one tick of the stream monitor

vars == <<trading_pairs, subscribed_pairs, subscription_pending, failed_subscriptions,
          is_running, websocket_connected, websocket, reconnect_attempts, delay,
          pc, sending, upd_new, upd_removed, last, bf, last_stream_data,
                   last_message_time, ping_task>>

subsVars == <<subscribed_pairs, subscription_pending, failed_subscriptions>>

\* No send in flight.
NoSend == [batch |-> {}, rest |-> {}, list |-> {}, live |-> FALSE]

\* No operation completed in the last step.  status is the connection_status
\* event the step gave to connection_manager.broadcast_json, "none" if it gave
\* none.
NoOp == [op |-> "none", syms |-> {}, was |-> {}, ok |-> FALSE, status |-> "none"]

Op(name, syms, was, ok) ==
    [op |-> name, syms |-> syms, was |-> was, ok |-> ok, status |-> "none"]

\* The status broadcast when _connect_websocket is past _subscribe_to_pairs.
SessionStatus == "connected"

\* The operation of a step that also broadcasts a connection_status event.
OpStatus(name, syms, was, ok, status) ==
    [op |-> name, syms |-> syms, was |-> was, ok |-> ok, status |-> status]

\* No backfill, maintenance or monitor tick is modelled (the websocket
\* specifications leave bf so).
BfIdle == [pc |-> "idle"]

\* ------------------------------------------------------- connection loop

\* Mutant of ReconnectDelay: the delay does not grow with the counter.
FixedReconnectDelay(n) == reconnect_delay

\* delay = min(self.reconnect_delay * self.reconnect_attempts, 60)
ReconnectDelay(n) == Min(reconnect_delay * n, max_delay)

\* The except branch of _websocket_connection_loop: the session (or the connect)
\* raised.  The finally of _connect_websocket has cleared websocket_connected.
LoopOnException ==
    /\ websocket_connected' = FALSE
    /\ IF is_running
       THEN /\ reconnect_attempts' = reconnect_attempts + 1
            /\ IF reconnect_attempts + 1 <= max_reconnect_attempts
               THEN /\ delay' = ReconnectDelay(reconnect_attempts + 1)
                    /\ pc' = [pc EXCEPT !.conn = "backoff"]
                    /\ UNCHANGED is_running
               ELSE /\ delay' = 0
                    /\ is_running' = FALSE
                    /\ pc' = [pc EXCEPT !.conn = "stopped"]
       ELSE /\ pc' = [pc EXCEPT !.conn = "stopped"]
            /\ UNCHANGED <<reconnect_attempts, delay, is_running>>

\* Mutant of LoopOnReturn: the loop ends when a session ends without raising.
LoopEndsOnReturn ==
    /\ websocket_connected' = FALSE
    /\ reconnect_attempts' = 0
    /\ pc' = [pc EXCEPT !.conn = "stopped"]
    /\ UNCHANGED <<delay, is_running>>

\* _connect_websocket returned without raising: the counter is reset and the
\* while loop tests is_running again, with no sleep.
LoopOnReturn ==
    /\ websocket_connected' = FALSE
    /\ reconnect_attempts' = 0
    /\ pc' = [pc EXCEPT !.conn = IF is_running THEN "connect" ELSE "stopped"]
    /\ UNCHANGED <<delay, is_running>>

\* Mutant of FirstBatches: the whole list goes into one subscribe message.
OneBatch(pairs) == {pairs}

\* The batches list(pairs)[i:i+batch_size] can start with: all the elements if
\* there are no more than batch_size; otherwise batch_size of them, which ones
\* depending on the order of the set's list, which is arbitrary.  Two orders are
\* modelled, the ascending and the descending one.
FirstBatches(pairs) ==
    IF Cardinality(pairs) <= batch_size
    THEN {pairs}
    ELSE {{x \in pairs : Cardinality({y \in pairs : y < x}) < batch_size},
          {x \in pairs : Cardinality({y \in pairs : y > x}) < batch_size}}

\* _subscribe_to_pairs entered with a non-empty set: the record of its first send.
FirstSend(pairs, b, live) ==
    [batch |-> b, rest |-> pairs \ b, list |-> pairs, live |-> live]

\* A close of the transport makes every send still in flight on it raise.
KillSends(snd) == [t \in DOMAIN snd |-> [snd[t] EXCEPT !.live = FALSE]]

\* Mutant of ClearSubscriptions: a new session keeps the sets of the last one.
KeepSubscriptions == UNCHANGED subsVars

\* subscribed_pairs.clear(), subscription_pending.clear(),
\* failed_subscriptions.clear() at the start of a session.
ClearSubscriptions ==
    /\ subscribed_pairs' = {}
    /\ subscription_pending' = {}
    /\ failed_subscriptions' = {}

\* websockets.connect succeeded: the session is marked connected, the three sets
\* are cleared and the full desired set is subscribed.
ConnectWebsocketOk ==
    /\ pc.conn = "connect"
    /\ websocket' = "open"
    /\ websocket_connected' = TRUE
    /\ ClearSubscriptions
    /\ IF trading_pairs # {}
       THEN \E b \in FirstBatches(trading_pairs) :
              /\ sending' = [sending EXCEPT !.conn = FirstSend(trading_pairs, b, TRUE)]
              /\ pc' = [pc EXCEPT !.conn = "subscribe"]
       ELSE /\ pc' = [pc EXCEPT !.conn = "read"]
            /\ UNCHANGED sending
    /\ last_message_time' = "fresh"
    /\ ping_task' = "running"
    /\ last' = OpStatus("connected", {}, {}, TRUE,
                        IF trading_pairs # {} THEN "none" ELSE SessionStatus)
    /\ UNCHANGED <<trading_pairs, is_running, reconnect_attempts, delay,
                   upd_new, upd_removed, bf, last_stream_data>>

\* websockets.connect raised.
ConnectWebsocketFail ==
    /\ pc.conn = "connect"
    /\ LoopOnException
    /\ last' = Op("connect_failed", {}, {}, FALSE)
    /\ UNCHANGED <<trading_pairs, subsVars, websocket, sending, upd_new, upd_removed, bf, last_stream_data,
                   last_message_time, ping_task>>

\* asyncio.sleep(delay) of the loop is over: the while loop tests is_running.
BackoffWake ==
    /\ pc.conn = "backoff"
    /\ pc' = [pc EXCEPT !.conn = IF is_running THEN "connect" ELSE "stopped"]
    /\ delay' = 0
    /\ last' = NoOp
    /\ UNCHANGED <<trading_pairs, subsVars, is_running, websocket_connected, websocket,
                   reconnect_attempts, sending, upd_new, upd_removed, bf, last_stream_data,
                   last_message_time, ping_task>>

\* ------------------------------------------------------ _subscribe_to_pairs

\* The task resumes after the last batch of its _subscribe_to_pairs call.
AfterSubscribe(t) ==
    CASE t = "conn"  -> "read"
      [] t = "retry" -> IF is_running THEN "sleep" ELSE "done"
      [] t = "upd"   -> "idle"

\* The operation a completed _subscribe_to_pairs call ends.
SubscribeOp(t) ==
    CASE t = "conn"  -> "session_subscribe"
      [] t = "retry" -> "retry"
      [] t = "upd"   -> "pairs_update"

\* await self.websocket.send(...) of task t returns (ok) or raises: the batch goes
\* to pending, or to failed, and the loop goes on with the next batch if any.
\* A send can only return on a transport that has stayed open since it began.
SubscribeSendDone(t) ==
    /\ pc[t] = "subscribe"
    /\ \E ok \in BOOLEAN :
         /\ ok => sending[t].live
         /\ IF ok
            THEN /\ subscription_pending' = subscription_pending \cup sending[t].batch
                 /\ UNCHANGED failed_subscriptions
            ELSE /\ failed_subscriptions' = failed_subscriptions \cup sending[t].batch
                 /\ UNCHANGED subscription_pending
         /\ IF sending[t].rest # {}
            THEN /\ \E b \in FirstBatches(sending[t].rest) :
                      sending' = [sending EXCEPT ![t] =
                                     [batch |-> b, rest |-> sending[t].rest \ b,
                                      list |-> sending[t].list,
                                      live |-> websocket = "open"]]
                 /\ last' = NoOp
                 /\ UNCHANGED <<pc, upd_new, upd_removed>>
            ELSE /\ sending' = [sending EXCEPT ![t] = NoSend]
                 /\ pc' = [pc EXCEPT ![t] = AfterSubscribe(t)]
                 /\ last' = OpStatus(SubscribeOp(t), sending[t].list, {}, ok,
                                     IF t = "conn" THEN SessionStatus ELSE "none")
                 /\ IF t = "upd"
                    THEN upd_new' = {} /\ upd_removed' = {}
                    ELSE UNCHANGED <<upd_new, upd_removed>>
    /\ UNCHANGED <<trading_pairs, subscribed_pairs, is_running, websocket_connected,
                   websocket, reconnect_attempts, delay, bf, last_stream_data,
                   last_message_time, ping_task>>

\* ------------------------------------------------ _subscription_retry_manager

\* await asyncio.sleep(60) of the retry manager is over.
SubscriptionRetryWake ==
    /\ pc.retry = "sleep"
    /\ pc' = [pc EXCEPT !.retry = "awake"]
    /\ last' = NoOp
    /\ UNCHANGED <<trading_pairs, subsVars, is_running, websocket_connected, websocket,
                   reconnect_attempts, delay, sending, upd_new, upd_removed, bf, last_stream_data,
                   last_message_time, ping_task>>

\* Mutant of SubscriptionRetryPass: a pass also retries the symbols that are
\* still pending.
RetryPassExpiresPending ==
    /\ pc.retry = "awake"
    /\ IF is_running /\ websocket_connected
            /\ failed_subscriptions \cup subscription_pending # {}
       THEN /\ failed_subscriptions' = {}
            /\ subscription_pending' = {}
            /\ \E b \in FirstBatches(failed_subscriptions \cup subscription_pending) :
                 sending' = [sending EXCEPT !.retry =
                                FirstSend(failed_subscriptions \cup subscription_pending, b,
                                          websocket = "open")]
            /\ pc' = [pc EXCEPT !.retry = "subscribe"]
            /\ last' = Op("retry_started",
                          failed_subscriptions \cup subscription_pending, {}, FALSE)
       ELSE /\ pc' = [pc EXCEPT !.retry = IF is_running THEN "sleep" ELSE "done"]
            /\ last' = Op("retry_idle", {}, {}, FALSE)
            /\ UNCHANGED <<failed_subscriptions, subscription_pending, sending>>
    /\ UNCHANGED <<trading_pairs, subscribed_pairs, is_running,
                   websocket_connected, websocket, reconnect_attempts, delay,
                   upd_new, upd_removed, bf, last_stream_data,
                   last_message_time, ping_task>>

\* One pass of the retry manager.  If the service is running, the session
\* connected and failed non-empty, failed is copied and cleared and the copy is
\* subscribed again; otherwise the pass does nothing and the loop sleeps again,
\* or ends when is_running is cleared.
SubscriptionRetryPass ==
    /\ pc.retry = "awake"
    /\ IF is_running /\ websocket_connected /\ failed_subscriptions # {}
       THEN /\ failed_subscriptions' = {}
            /\ \E b \in FirstBatches(failed_subscriptions) :
                 sending' = [sending EXCEPT !.retry =
                                FirstSend(failed_subscriptions, b, websocket = "open")]
            /\ pc' = [pc EXCEPT !.retry = "subscribe"]
            /\ last' = Op("retry_started", failed_subscriptions, {}, FALSE)
       ELSE /\ pc' = [pc EXCEPT !.retry = IF is_running THEN "sleep" ELSE "done"]
            /\ last' = Op("retry_idle", {}, {}, FALSE)
            /\ UNCHANGED <<failed_subscriptions, sending>>
    /\ UNCHANGED <<trading_pairs, subscribed_pairs, subscription_pending, is_running,
                   websocket_connected, websocket, reconnect_attempts, delay,
                   upd_new, upd_removed, bf, last_stream_data,
                   last_message_time, ping_task>>

\* ------------------------------------------------------------ _handle_message

\* Mutant of ConfirmSubscription: the symbol is not taken out of failed.
ConfirmKeepsFailed(s) ==
    /\ subscription_pending' = subscription_pending \ {s}
    /\ subscribed_pairs' = subscribed_pairs \cup {s}
    /\ UNCHANGED failed_subscriptions

\* Data for s has arrived, so its subscription works: s leaves pending and
\* failed and enters subscribed.
ConfirmSubscription(s) ==
    /\ subscription_pending' = subscription_pending \ {s}
    /\ failed_subscriptions' = failed_subscriptions \ {s}
    /\ subscribed_pairs' = subscribed_pairs \cup {s}

\* A kline message for symbol s is read from the open session and handled: a
\* symbol outside the desired set is ignored; otherwise it leaves pending and
\* failed and enters subscribed.
HandleMessage(s) ==
    /\ pc.conn = "read"
    /\ websocket = "open"
    /\ is_running
    /\ IF s \notin trading_pairs
       THEN /\ UNCHANGED <<subsVars, last_stream_data>>
            /\ last' = Op("tick_ignored", {s}, {}, FALSE)
       ELSE /\ ConfirmSubscription(s)
            /\ last_stream_data' = last_stream_data \cup {s}
            /\ last' = Op("tick", {s},
                          {"pending" : x \in {s} \cap subscription_pending}
                            \cup {"failed" : x \in {s} \cap failed_subscriptions},
                          TRUE)
    /\ last_message_time' = "fresh"
    /\ UNCHANGED <<trading_pairs, is_running, websocket_connected, websocket,
                   reconnect_attempts, delay, pc, sending, upd_new, upd_removed, bf,
                   ping_task>>

\* Where the handling of a message can raise: json.loads (the text is not JSON),
\* the read of data['data'][0] (before the symbol is known), or a later
\* statement of the kline branch, after the bookkeeping of the symbol (a field
\* of the kline is missing, save_kline_data or broadcast_json raises).  An error
\* of the alert manager is caught inside _process_closed_candle and the handling
\* goes on as HandleMessage.
RaisePoints == {"json", "fields", "storage"}

\* Mutant of ReadLoopContinue: the error leaves the read loop and reaches the
\* connection loop.
ErrorLeavesReadLoop ==
    /\ LoopOnException
    /\ websocket' = "closed_ok"

\* except json.JSONDecodeError: continue; except Exception: continue (and the
\* except Exception of _handle_message, which returns): the read loop takes the
\* next message.
ReadLoopContinue ==
    UNCHANGED <<websocket_connected, websocket, reconnect_attempts, delay, pc, is_running>>

\* A message is read from the open session and its handling raises at point p.
\* last_message_time is set before json.loads; what _handle_message did before
\* the statement that raised stays done.
HandleMessageRaises(s, p) ==
    /\ pc.conn = "read"
    /\ websocket = "open"
    /\ is_running
    /\ p = "storage" => s \in trading_pairs
    /\ IF p = "storage"
       THEN /\ ConfirmSubscription(s)
            /\ last_stream_data' = last_stream_data \cup {s}
       ELSE UNCHANGED <<subsVars, last_stream_data>>
    /\ last_message_time' = "fresh"
    /\ ReadLoopContinue
    /\ last' = Op("message_skipped", IF p = "storage" THEN {s} ELSE {}, {p},
                  websocket_connected)
    /\ UNCHANGED <<trading_pairs, sending, upd_new, upd_removed, bf, ping_task>>

\* ------------------------------------ handle_pairs_update, _update_subscriptions

\* handle_pairs_update past the data load: if the session is connected,
\* _update_subscriptions starts with the unsubscribe send for the removed pairs,
\* or, when none was removed, with the subscribe of the new pairs.
UpdateSubscriptionsEnter(new, removed) ==
    IF ~websocket_connected
    THEN /\ pc' = [pc EXCEPT !.upd = "idle"]
         /\ upd_new' = {} /\ upd_removed' = {}
         /\ last' = Op("pairs_update", new \cup removed, {}, FALSE)
         /\ UNCHANGED sending
    ELSE /\ upd_new' = new /\ upd_removed' = removed
         /\ last' = NoOp
         /\ IF removed # {}
            THEN /\ pc' = [pc EXCEPT !.upd = "unsubscribe"]
                 /\ sending' = [sending EXCEPT !.upd =
                                   [NoSend EXCEPT !.live = websocket = "open"]]
            ELSE /\ pc' = [pc EXCEPT !.upd = "subscribe"]
                 /\ \E b \in FirstBatches(new) :
                      sending' = [sending EXCEPT !.upd =
                                     FirstSend(new, b, websocket = "open")]

\* The updater found the watchlist changed (new = watchlist - trading_pairs,
\* removed = trading_pairs - watchlist) and calls handle_pairs_update: the desired
\* set is updated at once, the history of new pairs is then loaded.
HandlePairsUpdate(new, removed) ==
    /\ pc.upd = "idle"
    /\ is_running
    /\ new \cup removed # {}
    /\ trading_pairs' = (trading_pairs \cup new) \ removed
    /\ IF new # {}
       THEN /\ pc' = [pc EXCEPT !.upd = "load"]
            /\ upd_new' = new /\ upd_removed' = removed
            /\ last' = NoOp
            /\ UNCHANGED sending
       ELSE UpdateSubscriptionsEnter(new, removed)
    /\ UNCHANGED <<subsVars, is_running, websocket_connected, websocket,
                   reconnect_attempts, delay, bf, last_stream_data,
                   last_message_time, ping_task>>

\* _load_data_for_new_pairs is over (its own errors are caught inside it).
LoadDataDone ==
    /\ pc.upd = "load"
    /\ UpdateSubscriptionsEnter(upd_new, upd_removed)
    /\ UNCHANGED <<trading_pairs, subsVars, is_running, websocket_connected, websocket,
                   reconnect_attempts, delay, bf, last_stream_data,
                   last_message_time, ping_task>>

\* The unsubscribe send returns: the removed pairs leave subscribed and the new
\* pairs are subscribed; or it raises, and _update_subscriptions ends there.
UnsubscribeSendDone ==
    /\ pc.upd = "unsubscribe"
    /\ \E ok \in BOOLEAN :
         /\ ok => sending.upd.live
         /\ last_stream_data' =
              IF ok THEN last_stream_data \ upd_removed ELSE last_stream_data
         /\ IF ok /\ upd_new # {}
            THEN /\ subscribed_pairs' = subscribed_pairs \ upd_removed
                 /\ pc' = [pc EXCEPT !.upd = "subscribe"]
                 /\ \E b \in FirstBatches(upd_new) :
                      sending' = [sending EXCEPT !.upd =
                                     FirstSend(upd_new, b, websocket = "open")]
                 /\ last' = NoOp
                 /\ UNCHANGED <<upd_new, upd_removed>>
            ELSE /\ subscribed_pairs' =
                      IF ok THEN subscribed_pairs \ upd_removed ELSE subscribed_pairs
                 /\ pc' = [pc EXCEPT !.upd = "idle"]
                 /\ sending' = [sending EXCEPT !.upd = NoSend]
                 /\ last' = Op("pairs_update", upd_new \cup upd_removed, {}, ok)
                 /\ upd_new' = {} /\ upd_removed' = {}
    /\ UNCHANGED <<trading_pairs, subscription_pending, failed_subscriptions, is_running,
                   websocket_connected, websocket, reconnect_attempts, delay, bf,
                   last_message_time, ping_task>>

\* ------------------------------------------------------- end of a session

\* The exchange closes the session: with code 1000/1001 (the message iterator
\* then ends silently) or abnormally (it raises ConnectionClosedError).
RemoteClose(code) ==
    /\ websocket = "open"
    /\ websocket' = code
    /\ sending' = KillSends(sending)
    /\ last' = NoOp
    /\ UNCHANGED <<trading_pairs, subsVars, is_running, websocket_connected,
                   reconnect_attempts, delay, pc, upd_new, upd_removed, bf, last_stream_data,
                   last_message_time, ping_task>>

\* More than stream_timeout_seconds pass without a tick for s: its entry in
\* last_stream_data is stale.
StreamDataAges(s) ==
    /\ s \in last_stream_data
    /\ last_stream_data' = last_stream_data \ {s}
    /\ last' = NoOp
    /\ UNCHANGED <<trading_pairs, subsVars, is_running, websocket_connected, websocket,
                   reconnect_attempts, delay, pc, sending, upd_new, upd_removed, bf,
                   last_message_time, ping_task>>

\* The pairs _stream_monitor counts as critical: the desired pairs with no entry
\* in last_stream_data or a stale one.
CriticalPairs == trading_pairs \ last_stream_data

\* len(critical_pairs) >= max(1, len(self.trading_pairs) * 0.3)
TooManyCritical ==
    10 * Cardinality(CriticalPairs) >= Max(10, 3 * Cardinality(trading_pairs))

\* A pass of _stream_monitor finds too many critical pairs and closes the
\* transport itself (a local close, code 1000).
StreamMonitorForceClose ==
    /\ pc.start = "started"
    /\ is_running
    /\ websocket = "open"
    /\ TooManyCritical
    /\ websocket' = "closed_ok"
    /\ sending' = KillSends(sending)
    /\ last' = Op("force_close", {}, {}, TRUE)
    /\ UNCHANGED <<trading_pairs, subsVars, is_running, websocket_connected,
                   reconnect_attempts, delay, pc, upd_new, upd_removed, bf, last_stream_data,
                   last_message_time, ping_task>>

\* The read loop of _connect_websocket ends: the transport is closed, or a
\* message arrives after is_running was cleared (break).  The finally clears
\* websocket_connected and the connection loop decides what comes next.
ReadLoopEnd ==
    /\ pc.conn = "read"
    /\ websocket # "open" \/ ~is_running
    /\ websocket' = IF websocket = "open" THEN "closed_ok" ELSE websocket
    /\ sending' = KillSends(sending)
    /\ IF websocket = "closed_err" THEN LoopOnException ELSE LoopOnReturn
    /\ ping_task' = "none"
    /\ last' = Op("session_end", {}, {websocket}, is_running)
    /\ UNCHANGED <<trading_pairs, subsVars, upd_new, upd_removed, bf, last_stream_data,
                   last_message_time>>

\* _monitor_connection: the session has been up for connection_stable_time.
MonitorConnectionStable ==
    /\ pc.conn = "read"
    /\ is_running
    /\ websocket_connected
    /\ ping_task = "running"
    /\ last_message_time # "force"
    /\ reconnect_attempts' = 0
    /\ last' = NoOp
    /\ UNCHANGED <<trading_pairs, subsVars, is_running, websocket_connected, websocket,
                   delay, pc, sending, upd_new, upd_removed, bf, last_stream_data,
                   last_message_time, ping_task>>

\* A message that is not a kline (the answer to a subscribe, a pong) is read
\* from the open session: only last_message_time is set.
OtherMessage ==
    /\ pc.conn = "read"
    /\ websocket = "open"
    /\ is_running
    /\ last_message_time # "fresh"
    /\ last_message_time' = "fresh"
    /\ last' = NoOp
    /\ UNCHANGED <<trading_pairs, subsVars, is_running, websocket_connected, websocket,
                   reconnect_attempts, delay, pc, sending, upd_new, upd_removed, bf,
                   last_stream_data, ping_task>>

\* No message is read from the session while time passes: more than 90 s, then
\* more than 300 s, since last_message_time.
MessageTimeAges ==
    /\ pc.conn = "read"
    /\ websocket = "open"
    /\ last_message_time \in {"fresh", "warning"}
    /\ last_message_time' = IF last_message_time = "fresh" THEN "warning" ELSE "force"
    /\ last' = NoOp
    /\ UNCHANGED <<trading_pairs, subsVars, is_running, websocket_connected, websocket,
                   reconnect_attempts, delay, pc, sending, upd_new, upd_removed, bf,
                   last_stream_data, ping_task>>

\* _monitor_connection wakes from asyncio.sleep(30) and finds
\* time_since_last_message > 90: it broadcasts the connection_status "warning";
\* if it is > 300 it clears streaming_active and leaves its loop by break,
\* otherwise it goes on to the check of connection_stable_time.
MonitorConnectionSilent ==
    /\ pc.conn = "read"
    /\ is_running
    /\ websocket_connected
    /\ ping_task = "running"
    /\ last_message_time \in {"warning", "force"}
    /\ IF last_message_time = "force"
       THEN /\ ping_task' = "done"
            /\ UNCHANGED reconnect_attempts
       ELSE /\ \E stable \in BOOLEAN :
                 reconnect_attempts' = IF stable THEN 0 ELSE reconnect_attempts
            /\ UNCHANGED ping_task
    /\ last' = OpStatus("silence_warning", {}, {last_message_time}, TRUE, "warning")
    /\ UNCHANGED <<trading_pairs, subsVars, is_running, websocket_connected, websocket,
                   delay, pc, sending, upd_new, upd_removed, bf, last_stream_data,
                   last_message_time>>

\* ------------------------------------------------------- _load_full_period

\* The minutes m (as timestamps in ms) with a <= m <= b.
MinuteStamps(a, b) == {m * minute_ms : m \in a..b}

\* The klines the exchange holds for the symbol: one per minute from minute
\* bf.exch_lo to minute bf.exch_hi.  The answer to a kline request with the given
\* start, end and limit: the rows with start <= timestamp <= end and, if there are
\* more than limit of them, either the limit newest ones (bf.newest) or the limit
\* oldest ones.  The rows of a page come newest first and the code reverses them;
\* it then only takes their maximum and adds them to storage one by one, key by
\* key, so a page is modelled as the set of its timestamps.
ExchangePage(start, end, limit) ==
    LET lo == Max(bf.exch_lo, (start + minute_ms - 1) \div minute_ms)
        hi == Min(bf.exch_hi, end \div minute_ms)
    IN  IF hi - lo + 1 <= limit
        THEN MinuteStamps(lo, hi)
        ELSE IF bf.newest
             THEN MinuteStamps(hi - limit + 1, hi)
             ELSE MinuteStamps(lo, lo + limit - 1)

\* limit = min(remaining_minutes + 10, max_limit)
PageLimit(current_start, end) ==
    Min((end - current_start) \div minute_ms + 10, max_limit)

\* rounded_timestamp = (kline_timestamp_ms // 60000) * 60000
RoundToMinute(ts) == (ts \div minute_ms) * minute_ms

\* The rows of a page the loop does not skip: those inside [start, end).
InRange(page) == {ts \in page : ts >= bf.start_time_ms /\ ts < bf.end_time_ms}

\* Mutant of check_candle_exists: the lookup never finds the row.
CandleNeverFound(ts) == FALSE

\* check_candle_exists: a row of kline_data with that key.
check_candle_exists(ts) == ts \in bf.stored

\* The keys save_historical_kline_data is called with for a page: the rounded
\* timestamps of its rows in range that are not in storage yet.
PageWrites(page) ==
    {RoundToMinute(ts) : ts \in InRange(page)} \ {k \in bf.stored : check_candle_exists(k)}

\* Mutant of LastTimestamp: the maximum of the timestamps of all the rows of the
\* page, none skipped, and 0 for the start.
LastRowTimestamp(page) ==
    LET R == page \cup {0}
    IN  CHOOSE x \in R : \A y \in R : y <= x

\* last_timestamp after the loop over a page: the maximum of current_start and
\* the timestamps of the rows in range.
LastTimestamp(page) ==
    LET R == InRange(page) \cup {bf.current_start}
    IN  CHOOSE x \in R : \A y \in R : y <= x

\* A request is answered with HTTP 200 and retCode 0, and the page is processed.
\* An empty page, or one with fewer rows than asked for, ends the call.
BackfillPage ==
    /\ bf.pc = "request"
    /\ bf.current_start < bf.end_time_ms
    /\ LET limit == PageLimit(bf.current_start, bf.end_time_ms)
           page  == ExchangePage(bf.current_start, bf.end_time_ms, limit)
       IN  IF limit <= 0 \/ page = {}
           THEN bf' = [bf EXCEPT !.pc = "done", !.result = "true", !.response = "ok"]
           ELSE bf' = [bf EXCEPT
                        !.response = "ok",
                        !.stored = bf.stored \cup PageWrites(page),
                        !.total_loaded = bf.total_loaded + Cardinality(PageWrites(page)),
                        !.current_start = LastTimestamp(page) + minute_ms,
                        !.pages = bf.pages + 1,
                        !.pc = IF Cardinality(page) < limit THEN "done" ELSE "request",
                        !.result = IF Cardinality(page) < limit THEN "true" ELSE "none"]
    /\ UNCHANGED <<trading_pairs, subsVars, is_running, websocket_connected, websocket,
                   reconnect_attempts, delay, pc, sending, upd_new, upd_removed, last,
                   last_stream_data,
                   last_message_time, ping_task>>

\* The pages an exchange may answer a request with, whatever the request: no
\* rows, or rows before the cursor (rows of earlier pages again, or rows before
\* the range), a row inside the cursor's minute, rows after it, rows at the end
\* of the range, fewer of them than asked for or as many.  stamps are the
\* timestamps of the rows the loop over the page handles without an exception;
\* len is len(klines), which also counts the rows that repeat a timestamp and
\* those whose handling raises and is skipped.
AnyPages(limit) ==
    LET stamps == {bf.current_start - minute_ms, bf.current_start + minute_ms \div 2,
                   bf.current_start + minute_ms, bf.current_start + 3 * minute_ms,
                   bf.end_time_ms}
    IN  {[stamps |-> {}, len |-> 0]}
        \cup {[stamps |-> st, len |-> n] :
                 st \in SUBSET {ts \in stamps : ts >= 0}, n \in {limit - 1, limit}}

\* BackfillPage with the page any of AnyPages: a request is answered with HTTP
\* 200 and retCode 0, and the page is processed.
BackfillAnyPage ==
    /\ bf.pc = "request"
    /\ bf.current_start < bf.end_time_ms
    /\ LET limit == PageLimit(bf.current_start, bf.end_time_ms)
       IN  \E pg \in AnyPages(limit) :
             IF limit <= 0 \/ pg.len = 0
             THEN bf' = [bf EXCEPT !.pc = "done", !.result = "true", !.response = "ok",
                                   !.page = pg]
             ELSE bf' = [bf EXCEPT
                          !.response = "ok",
                          !.page = pg,
                          !.stored = bf.stored \cup PageWrites(pg.stamps),
                          !.total_loaded = bf.total_loaded + Cardinality(PageWrites(pg.stamps)),
                          !.current_start = LastTimestamp(pg.stamps) + minute_ms,
                          !.pages = bf.pages + 1,
                          !.pc = IF pg.len < limit THEN "done" ELSE "request",
                          !.result = IF pg.len < limit THEN "true" ELSE "none"]
    /\ UNCHANGED <<trading_pairs, subsVars, is_running, websocket_connected, websocket,
                   reconnect_attempts, delay, pc, sending, upd_new, upd_removed, last,
                   last_stream_data,
                   last_message_time, ping_task>>

\* The ways a request does not give a page: another HTTP status than 200, a
\* non-zero retCode, or an exception (requests.get times out, the body is not
\* the JSON expected).
FailedResponses == {"http_status", "ret_code", "exception"}

\* Mutant of BackfillRequestFails: the request is made again.
RequestFailureRetried ==
    /\ bf.pc = "request"
    /\ bf.current_start < bf.end_time_ms
    /\ \E kind \in FailedResponses : bf' = [bf EXCEPT !.response = kind]
    /\ UNCHANGED <<trading_pairs, subsVars, is_running, websocket_connected, websocket,
                   reconnect_attempts, delay, pc, sending, upd_new, upd_removed, last,
                   last_stream_data,
                   last_message_time, ping_task>>

\* A request is answered with another HTTP status, or with a non-zero retCode,
\* or raises: the call returns False.
BackfillRequestFails ==
    /\ bf.pc = "request"
    /\ bf.current_start < bf.end_time_ms
    /\ \E kind \in FailedResponses :
         bf' = [bf EXCEPT !.pc = "done", !.result = "false", !.response = kind]
    /\ UNCHANGED <<trading_pairs, subsVars, is_running, websocket_connected, websocket,
                   reconnect_attempts, delay, pc, sending, upd_new, upd_removed, last,
                   last_stream_data,
                   last_message_time, ping_task>>

\* The while loop finds current_start >= end_time_ms: the call returns True.
BackfillLoopExit ==
    /\ bf.pc = "request"
    /\ bf.current_start >= bf.end_time_ms
    /\ bf' = [bf EXCEPT !.pc = "done", !.result = "true"]
    /\ UNCHANGED <<trading_pairs, subsVars, is_running, websocket_connected, websocket,
                   reconnect_attempts, delay, pc, sending, upd_new, upd_removed, last,
                   last_stream_data,
                   last_message_time, ping_task>>

\* The same call is made a second time, the exchange holding the same rows and
\* nothing else having written to storage.
BackfillAgain ==
    /\ bf.pc = "done"
    /\ bf.call = 1
    /\ bf' = [bf EXCEPT !.pc = "request", !.call = 2,
                        !.first_stored = bf.stored, !.first_result = bf.result,
                        !.current_start = bf.start_time_ms,
                        !.total_loaded = 0, !.pages = 0,
                        !.result = "none", !.response = "none"]
    /\ UNCHANGED <<trading_pairs, subsVars, is_running, websocket_connected, websocket,
                   reconnect_attempts, delay, pc, sending, upd_new, upd_removed, last,
                   last_stream_data,
                   last_message_time, ping_task>>

\* ---------------- _maintain_exact_data_range, _load_symbol_data, hourly cleanup
\*
\* The candles of one desired symbol.  In this part bf holds the wall clock
\* (bf.now, ms), the settings, the kline_data rows of the symbol (bf.stored), the
\* exchange (one kline per minute from bf.exch_lo to the running minute
\* bf.exch_hi) and, per task, where it is suspended.  requests.get blocks and the
\* database methods never suspend, so a task gives way to another only at the
\* asyncio.sleep(0.2) that follows a full page of _load_full_period.

\* The tasks that call _load_full_period for the symbol: _data_range_manager and
\* the loader handle_pairs_update starts for a new symbol.
Tasks == {"mgr", "loader"}

hour_ms == 3600000

\* self.data_range_check_interval, seconds
data_range_check_interval == 300

\* asyncio.sleep(3600) of _data_cleanup_task, seconds
cleanup_interval == 3600

\* if missing_count > 10
missing_threshold == 10

\* total_hours = retention_hours + analysis_hours
total_hours == bf.retention_hours + bf.analysis_hours

\* What a kline request is answered with: a page, or one of FailedResponses
\* (which of them makes no difference to the caller).
Responses == {"ok", "ret_code"}

NoCall == [start_time_ms |-> 0, end_time_ms |-> 0, current_start |-> 0]

\* No pass of _maintain_exact_data_range completed in the last step.  rechecks
\* is the number of calls of check_data_integrity_range the pass made after its
\* backfill.
NoPass == [task |-> "none", start |-> 0, end |-> 0, suspended |-> FALSE,
           loaded |-> FALSE, ok |-> FALSE, rechecks |-> 0]

\* Where a task rests when it has nothing in flight.
Rest(t) == IF t = "mgr" THEN "sleep" ELSE "done"

\* DELETE ... WHERE timestamp_ms < before
cleanup_old_candles_before_time(st, before) == {k \in st : k >= before}

\* DELETE ... WHERE timestamp_ms >= after
cleanup_future_candles_after_time(st, after) == {k \in st : k < after}

\* cutoff = now - hours; DELETE ... WHERE timestamp_ms < cutoff
cleanup_old_candles(st, now, hours) == {k \in st : k >= now - hours * hour_ms}

\* missing_count = max(0, expected - actual) over the closed rows in [s, e)
check_data_integrity_range(st, s, e) ==
    Max(0, (e - s) \div minute_ms - Cardinality({k \in st : k >= s /\ k < e}))

\* The rows of a page the loop of _load_full_period does not skip.
RowsInRange(page, s, e) == {ts \in page : ts >= s /\ ts < e}

\* last_timestamp = max(last_timestamp, kline_timestamp_ms) over the rows taken,
\* starting from current_start: the greatest of them, found by looking down from
\* the minute top, or floor if floor is greater than every row.
RECURSIVE Greatest(_, _, _)
Greatest(rows, top, floor) ==
    IF top <= floor THEN floor
    ELSE IF top \in rows THEN top
    ELSE Greatest(rows, top - minute_ms, floor)

\* _load_full_period from its loop test to its next suspension or return, for
\* the call c on storage st, the request being answered with resp.  status is
\* "sleep" at asyncio.sleep(0.2), else what the call returns.
LoadSegment(st, c, resp) ==
    IF c.current_start >= c.end_time_ms
    THEN [status |-> "true", stored |-> st, call |-> c]
    ELSE IF resp # "ok"
    THEN [status |-> "false", stored |-> st, call |-> c]
    ELSE LET limit == PageLimit(c.current_start, c.end_time_ms)
             page  == ExchangePage(c.current_start, c.end_time_ms, limit)
             rows  == RowsInRange(page, c.start_time_ms, c.end_time_ms)
             lastt == Greatest(rows, RoundToMinute(c.end_time_ms), c.current_start)
         IN  IF limit <= 0 \/ page = {}
             THEN [status |-> "true", stored |-> st, call |-> c]
             ELSE [status |-> IF Cardinality(page) < limit THEN "true" ELSE "sleep",
                   stored |-> st \cup {RoundToMinute(ts) : ts \in rows},
                   call   |-> [c EXCEPT !.current_start = lastt + minute_ms]]

\* Mutant of MaintainRange: the backfill is asked for the hour before the window
\* as well.
MaintainRangeAndBefore(st, now, resp) ==
    LET m   == RoundToMinute(now)
        s   == m - total_hours * hour_ms
        st1 == cleanup_future_candles_after_time(
                   cleanup_old_candles_before_time(st, s), m)
        c   == [start_time_ms |-> s - hour_ms, end_time_ms |-> m,
                current_start |-> s - hour_ms]
        seg == LoadSegment(st1, c, resp)
    IN  IF check_data_integrity_range(st1, s, m) > missing_threshold
        THEN [status |-> seg.status, stored |-> seg.stored, call |-> seg.call,
              loaded |-> TRUE]
        ELSE [status |-> "true", stored |-> st1, call |-> c, loaded |-> FALSE]

\* _maintain_exact_data_range at time now on storage st, up to its first
\* suspension or its return: both purges, the count, and the backfill of the
\* window when more than missing_threshold rows are missing.
MaintainRange(st, now, resp) ==
    LET m   == RoundToMinute(now)
        s   == m - total_hours * hour_ms
        st1 == cleanup_future_candles_after_time(
                   cleanup_old_candles_before_time(st, s), m)
        c   == [start_time_ms |-> s, end_time_ms |-> m, current_start |-> s]
        seg == LoadSegment(st1, c, resp)
    IN  IF check_data_integrity_range(st1, s, m) > missing_threshold
        THEN [status |-> seg.status, stored |-> seg.stored, call |-> seg.call,
              loaded |-> TRUE]
        ELSE [status |-> "true", stored |-> st1, call |-> c, loaded |-> FALSE]

\* bf after task t ran _maintain_exact_data_range with outcome r.
AfterMaintain(t, r) ==
    [bf EXCEPT
       !.stored = r.stored,
       !.task[t] = IF r.status = "sleep" THEN "pass_bf" ELSE Rest(t),
       !.call[t] = IF r.status = "sleep" THEN r.call ELSE NoCall,
       !.mgr_wake = IF t = "mgr" /\ r.status # "sleep"
                    THEN bf.now + data_range_check_interval * 1000 ELSE @,
       !.began = IF r.loaded THEN {t} ELSE {},
       !.pass_done = IF r.status = "sleep" THEN NoPass
                     ELSE [task |-> t, start |-> r.call.start_time_ms,
                           end |-> r.call.end_time_ms, suspended |-> FALSE,
                           loaded |-> r.loaded, ok |-> r.status = "true",
                           rechecks |-> IF r.loaded /\ r.status = "true"
                                        THEN 1 ELSE 0]]

MaintainFrame ==
    UNCHANGED <<trading_pairs, subsVars, is_running, websocket_connected, websocket,
                reconnect_attempts, delay, pc, sending, upd_new, upd_removed, last,
                last_stream_data,
                   last_message_time, ping_task>>

\* _data_range_manager wakes from asyncio.sleep(data_range_check_interval) and
\* runs _maintain_exact_data_range for the symbol.
RangeManagerPass ==
    /\ bf.pc = "maintain"
    /\ bf.task["mgr"] = "sleep"
    /\ bf.now >= bf.mgr_wake
    /\ \E resp \in Responses :
         bf' = AfterMaintain("mgr", MaintainRange(bf.stored, bf.now, resp))
    /\ MaintainFrame

\* handle_pairs_update has added the symbol; _load_data_for_new_pairs runs
\* _load_symbol_data(symbol, total_hours + 1, force_load=True): a backfill of
\* [now - hours, now) and, if it returns True, the time the call began goes to
\* last_data_load_time and _maintain_exact_data_range runs.
LoadSymbolData ==
    /\ bf.pc = "maintain"
    /\ bf.task["loader"] = "idle"
    /\ \E resp \in Responses, resp2 \in Responses :
         LET s   == bf.now - (total_hours + 1) * hour_ms
             c   == [start_time_ms |-> s, end_time_ms |-> bf.now, current_start |-> s]
             seg == LoadSegment(bf.stored, c, resp)
         IN  bf' = IF seg.status = "sleep"
                   THEN [bf EXCEPT !.stored = seg.stored, !.task["loader"] = "load_bf",
                                   !.call["loader"] = seg.call,
                                   !.began = {"loader"}, !.pass_done = NoPass]
                   ELSE IF seg.status = "false"
                   THEN [bf EXCEPT !.task["loader"] = "done",
                                   !.began = {"loader"}, !.pass_done = NoPass]
                   ELSE [AfterMaintain("loader",
                                       MaintainRange(seg.stored, bf.now, resp2))
                           EXCEPT !.began = {"loader"},
                                  !.last_data_load_time = bf.now]
    /\ MaintainFrame

\* A task suspended in _load_full_period wakes from asyncio.sleep(0.2) and runs
\* on: the next page, and what follows the call when it returns.
ResumeLoad(t) ==
    /\ bf.pc = "maintain"
    /\ bf.task[t] \in {"load_bf", "pass_bf"}
    /\ \E resp \in Responses, resp2 \in Responses :
         LET seg == LoadSegment(bf.stored, bf.call[t], resp)
         IN  bf' = IF seg.status = "sleep"
                   THEN [bf EXCEPT !.stored = seg.stored, !.call[t] = seg.call,
                                   !.began = {}, !.pass_done = NoPass]
                   ELSE IF bf.task[t] = "pass_bf"
                   THEN [bf EXCEPT
                           !.stored = seg.stored, !.task[t] = Rest(t),
                           !.call[t] = NoCall,
                           !.mgr_wake = IF t = "mgr"
                                        THEN bf.now + data_range_check_interval * 1000
                                        ELSE @,
                           !.began = {},
                           !.pass_done = [task |-> t,
                                          start |-> bf.call[t].start_time_ms,
                                          end |-> bf.call[t].end_time_ms,
                                          suspended |-> TRUE, loaded |-> TRUE,
                                          ok |-> seg.status = "true",
                                          rechecks |-> IF seg.status = "true"
                                                       THEN 1 ELSE 0]]
                   ELSE IF seg.status = "false"
                   THEN [bf EXCEPT !.task[t] = "done", !.call[t] = NoCall,
                                   !.began = {}, !.pass_done = NoPass]
                   ELSE [AfterMaintain(t, MaintainRange(seg.stored, bf.now, resp2))
                           EXCEPT !.last_data_load_time = bf.call[t].end_time_ms]
    /\ MaintainFrame

\* _handle_message for a closed kline of the symbol: the candle of the minute
\* that has just ended is rounded to the minute and upserted into kline_data.
StoreClosedCandle ==
    /\ bf.pc = "maintain"
    /\ RoundToMinute(bf.now) - minute_ms \notin bf.stored
    /\ bf' = [bf EXCEPT !.stored = @ \cup {RoundToMinute(bf.now) - minute_ms},
                        !.began = {}, !.pass_done = NoPass]
    /\ MaintainFrame

\* _data_cleanup_task wakes from asyncio.sleep(3600) and calls
\* cleanup_old_candles(symbol, retention_hours).
DataCleanup ==
    /\ bf.pc = "maintain"
    /\ bf.now >= bf.cleanup_wake
    /\ bf' = [bf EXCEPT !.stored = cleanup_old_candles(@, bf.now, bf.retention_hours),
                        !.cleanup_wake = bf.now + cleanup_interval * 1000,
                        !.began = {}, !.pass_done = NoPass]
    /\ MaintainFrame

\* Time passes.  The clock of the model moves in half minutes, from the middle
\* of a minute to its end and on, which is enough to tell an instant before a
\* minute boundary from one after it; the exchange holds a kline for the running
\* minute.
ClockAdvance ==
    /\ bf.pc = "maintain"
    /\ bf.steps < MaxClockSteps
    /\ bf' = [bf EXCEPT !.now = @ + 30000,
                        !.exch_hi = (bf.now + 30000) \div minute_ms,
                        !.steps = @ + 1,
                        !.began = {}, !.pass_done = NoPass]
    /\ MaintainFrame

\* ------------------------------------------- _stream_monitor, one tick in full
\*
\* In this part bf holds, per symbol, the age in seconds of its last_stream_data
\* entry when the monitor wakes (bf.age), the lists the tick builds
\* (bf.snapshot) and what it decides (bf.decision).  The tick awaits
\* connection_manager.broadcast_json between building the lists and deciding,
\* and reads len(self.trading_pairs) again after it.

\* self.stream_timeout_seconds
stream_timeout_seconds == 300

\* if time_since_last > 300
critical_seconds == 300

\* last_stream_data has no entry for the symbol.
NeverSeen == -1

\* The ages tried: never seen, fresh, and around the critical threshold.
AgeChoices ==
    {NeverSeen, 0, critical_seconds - 1, critical_seconds, critical_seconds + 1}

\* Mutant of inactive_pairs: stale after 120 s.
InactiveAfterTwoMinutes(age) ==
    {s \in trading_pairs : age[s] = NeverSeen \/ age[s] > 120}

\* inactive_pairs: never seen, or time_since_last > stream_timeout_seconds
inactive_pairs(age) ==
    {s \in trading_pairs : age[s] = NeverSeen \/ age[s] > stream_timeout_seconds}

\* Mutant of critical_pairs: critical from the threshold on.
CriticalAtThreshold(age) ==
    {s \in trading_pairs : age[s] = NeverSeen \/ age[s] >= critical_seconds}

\* critical_pairs: never seen, or inactive with time_since_last > 300
critical_pairs(age) ==
    {s \in trading_pairs :
        \/ age[s] = NeverSeen
        \/ age[s] > stream_timeout_seconds /\ age[s] > critical_seconds}

\* Mutant of ReconnectNeeded: only a share above 30% counts.
ReconnectAboveShare(c, i, n) == 10 * c > 3 * n \/ 2 * i > n

\* critical_threshold = max(1, n * 0.3);
\* len(critical_pairs) >= critical_threshold, or else len(inactive_pairs) > n * 0.5
ReconnectNeeded(c, i, n) == 10 * c >= Max(10, 3 * n) \/ 2 * i > n

\* The counts of the streaming_status message built from the lists.
StreamingStats(inactive, critical) ==
    [active_pairs   |-> Cardinality(trading_pairs) - Cardinality(inactive),
     inactive_pairs |-> Cardinality(inactive),
     critical_pairs |-> Cardinality(critical),
     total_pairs    |-> Cardinality(trading_pairs)]

\* The branch of the tick's decision that is taken: the if on the critical
\* pairs, the elif on the inactive pairs, or neither.
ReconnectBranch(c, i, n) ==
    IF 10 * c >= Max(10, 3 * n) THEN "critical"
    ELSE IF 2 * i > n THEN "inactive"
    ELSE "none"

NoSnapshot == [taken |-> FALSE, inactive |-> {}, critical |-> {}, desired |-> {},
               stats |-> [active_pairs |-> 0, inactive_pairs |-> 0,
                          critical_pairs |-> 0, total_pairs |-> 0]]

NoDecision == [made |-> FALSE, close |-> FALSE, n |-> 0, transport |-> FALSE,
               branch |-> "none"]

\* The monitor wakes from asyncio.sleep(30) and builds inactive_pairs and
\* critical_pairs; it is then suspended in broadcast_json.
StreamMonitorSnapshot ==
    /\ bf.pc = "health"
    /\ bf.phase = "sleep"
    /\ is_running
    /\ bf' = [bf EXCEPT !.phase = "broadcast",
                        !.snapshot = [taken |-> TRUE,
                                      inactive |-> inactive_pairs(bf.age),
                                      critical |-> critical_pairs(bf.age),
                                      desired |-> trading_pairs,
                                      stats |-> StreamingStats(inactive_pairs(bf.age),
                                                               critical_pairs(bf.age))]]
    /\ UNCHANGED <<trading_pairs, subsVars, is_running, websocket_connected, websocket,
                   reconnect_attempts, delay, pc, sending, upd_new, upd_removed, last,
                   last_stream_data,
                   last_message_time, ping_task>>

\* broadcast_json returns: the monitor compares the lists with the size of
\* trading_pairs and closes self.websocket, if there is one.
StreamMonitorDecide ==
    /\ bf.pc = "health"
    /\ bf.phase = "broadcast"
    /\ LET close == /\ ReconnectNeeded(Cardinality(bf.snapshot.critical),
                                       Cardinality(bf.snapshot.inactive),
                                       Cardinality(trading_pairs))
                    /\ websocket # "none"
       IN  /\ bf' = [bf EXCEPT !.phase = "decided",
                               !.decision = [made |-> TRUE, close |-> close,
                                             n |-> Cardinality(trading_pairs),
                                             transport |-> websocket # "none",
                                             branch |-> ReconnectBranch(
                                                 Cardinality(bf.snapshot.critical),
                                                 Cardinality(bf.snapshot.inactive),
                                                 Cardinality(trading_pairs))]]
           /\ websocket' = IF close /\ websocket = "open" THEN "closed_ok" ELSE websocket
           /\ sending' = IF close THEN KillSends(sending) ELSE sending
           /\ last' = IF close THEN Op("force_close", {}, {}, TRUE) ELSE NoOp
    /\ UNCHANGED <<trading_pairs, subsVars, is_running, websocket_connected,
                   reconnect_attempts, delay, pc, upd_new, upd_removed,
                   last_stream_data,
                   last_message_time, ping_task>>

\* The watchlist loses pairs once, the first one or all of them:
\* handle_pairs_update(set(), removed).
PairsRemoved ==
    /\ bf.pc = "health"
    /\ trading_pairs = DOMAIN bf.age
    /\ \E removed \in {trading_pairs, trading_pairs \cap {1}} :
         HandlePairsUpdate({}, removed)

\* ---------------------------------------------------------- start and stop

\* _connect_and_subscribe sees websocket_connected in its one-second poll.
StartSeesConnection ==
    /\ pc.start = "wait_connection"
    /\ websocket_connected
    /\ pc' = [pc EXCEPT !.start = "wait_subscription"]
    /\ last' = NoOp
    /\ UNCHANGED <<trading_pairs, subsVars, is_running, websocket_connected, websocket,
                   reconnect_attempts, delay, sending, upd_new, upd_removed, bf, last_stream_data,
                   last_message_time, ping_task>>

\* The wait for the subscriptions is over (all subscribed, or 60 s passed):
\* start() creates the updater, the retry manager and the stream monitor.
StartPeriodicTasks ==
    /\ pc.start = "wait_subscription"
    /\ is_running
    /\ pc' = [pc EXCEPT !.start = "started", !.retry = "sleep", !.upd = "idle"]
    /\ last' = NoOp
    /\ UNCHANGED <<trading_pairs, subsVars, is_running, websocket_connected, websocket,
                   reconnect_attempts, delay, sending, upd_new, upd_removed, bf, last_stream_data,
                   last_message_time, ping_task>>

\* stop(): the flags are cleared, the periodic tasks are cancelled where they
\* wait, and the transport is closed.  The connection loop task is not cancelled.
Stop ==
    /\ is_running
    /\ is_running' = FALSE
    /\ websocket_connected' = FALSE
    /\ pc' = [pc EXCEPT !.retry = "cancelled", !.upd = "cancelled"]
    /\ sending' = [conn |-> [sending.conn EXCEPT !.live = FALSE],
                   retry |-> NoSend, upd |-> NoSend]
    /\ upd_new' = {} /\ upd_removed' = {}
    /\ websocket' = IF websocket = "open" THEN "closed_ok" ELSE websocket
    /\ last' = Op("stop", {}, {}, TRUE)
    /\ UNCHANGED <<trading_pairs, subsVars, reconnect_attempts, delay, bf, last_stream_data,
                   last_message_time, ping_task>>

\* ------------------------------------------------------------------ start()
\*
\* The steps of start() before _connect_and_subscribe.  In this part bf holds
\* the flag data_loading_complete and pc.start the step start() is at.

\* What the session, the loops and storage are left with by a step of start().
StartFrame ==
    UNCHANGED <<subsVars, is_running, websocket_connected, websocket, reconnect_attempts,
                delay, sending, upd_new, upd_removed, last_stream_data,
                last_message_time, ping_task>>

\* Step 1, _load_trading_pairs: trading_pairs becomes the watchlist of storage;
\* if get_watchlist raises, start() raises.
LoadTradingPairs ==
    /\ pc.start = "load_pairs"
    /\ \/ \E watchlist \in SUBSET Symbols :
            /\ trading_pairs' = watchlist
            /\ pc' = [pc EXCEPT !.start = "history"]
            /\ last' = Op("load_pairs", watchlist, {}, TRUE)
       \/ /\ pc' = [pc EXCEPT !.start = "failed"]
          /\ last' = Op("load_pairs", {}, {}, FALSE)
          /\ UNCHANGED trading_pairs
    /\ UNCHANGED bf
    /\ StartFrame

\* Steps 2 and 3.  _smart_check_and_load_historical_data sets
\* data_loading_complete (at once with no pairs, otherwise after the analysis and
\* the loads), or raises and start() raises.  _connect_and_subscribe then returns
\* at once if there are no pairs, and start() goes on to create the periodic
\* tasks and the stream monitor; otherwise it creates the task of the connection
\* loop and polls websocket_connected.
SmartCheckAndLoad ==
    /\ pc.start = "history"
    /\ \/ /\ bf' = [bf EXCEPT !.data_loading_complete = TRUE]
          /\ pc' = IF trading_pairs = {}
                   THEN [pc EXCEPT !.start = "started", !.retry = "sleep", !.upd = "idle"]
                   ELSE [pc EXCEPT !.start = "wait_connection", !.conn = "connect"]
          /\ last' = Op("history", trading_pairs, {}, TRUE)
       \/ /\ trading_pairs # {}
          /\ pc' = [pc EXCEPT !.start = "failed"]
          /\ last' = Op("history", trading_pairs, {}, FALSE)
          /\ UNCHANGED bf
    /\ UNCHANGED trading_pairs
    /\ StartFrame

\* _connect_and_subscribe has polled websocket_connected for max_wait seconds
\* without seeing it set: it raises and start() raises.  The connection loop
\* goes on.
StartConnectionTimeout ==
    /\ pc.start = "wait_connection"
    /\ ~websocket_connected
    /\ pc' = [pc EXCEPT !.start = "failed"]
    /\ last' = Op("start_timeout", {}, {}, FALSE)
    /\ UNCHANGED <<trading_pairs, bf>>
    /\ StartFrame

\* ------------------------------------------ _smart_analyze_pairs_data_status
\*
\* The classification of one desired symbol at startup.  In this part bf holds
\* what the classifier reads: hours_needed, the count of the integrity report,
\* the age of the latest closed candle and the time since the last load of the
\* symbol by this client, all times in ms.

min_integrity_for_skip == 85
min_candles_for_skip == 30
max_data_age_hours == 6

\* self.data_load_cooldown, seconds
data_load_cooldown == 3600

\* The thresholds of the second branch.
partial_min_candles == 20
partial_min_integrity == 60

\* _get_latest_candle_time found no closed candle.
NoCandle == -1

\* last_data_load_time has no entry for the symbol.
NeverLoaded == -1

\* total_hours_needed = retention_hours + analysis_hours + 1
total_hours_needed(retention, analysis) == retention + analysis + 1

\* integrity_percentage >= pct, where integrity_percentage is
\* actual_count / expected_count * 100, or 0 if nothing is expected.
IntegrityAtLeast(existing, expected, pct) ==
    expected > 0 /\ 100 * existing >= pct * expected

\* data_age_hours * 3600000: 0 when there is no closed candle.
DataAge(age) == IF age = NoCandle THEN 0 ELSE age

\* time_since_load < self.data_load_cooldown
InCooldown(since_load) ==
    since_load # NeverLoaded /\ since_load < data_load_cooldown * 1000

\* The list _smart_analyze_pairs_data_status appends the symbol to.
SmartAnalyze(existing, expected, age, since_load) ==
    IF InCooldown(since_load)
    THEN "has_data"
    ELSE IF /\ IntegrityAtLeast(existing, expected, min_integrity_for_skip)
            /\ existing >= min_candles_for_skip
            /\ DataAge(age) <= max_data_age_hours * 3600000
         THEN "has_data"
         ELSE IF /\ existing >= partial_min_candles
                 /\ IntegrityAtLeast(existing, expected, partial_min_integrity)
                 /\ DataAge(age) <= max_data_age_hours * 3600000
              THEN "partial_data"
              ELSE IF /\ existing >= min_candles_for_skip
                      /\ DataAge(age) > max_data_age_hours * 3600000
                   THEN "outdated_data"
                   ELSE "needs_loading"

\* The classifier handles the symbol.
AnalyzePair ==
    /\ bf.pc = "classify"
    /\ bf.category = "none"
    /\ bf' = [bf EXCEPT !.category =
                 SmartAnalyze(bf.existing, bf.hours * 60, bf.age, bf.since_load)]
    /\ UNCHANGED <<trading_pairs, subsVars, is_running, websocket_connected, websocket,
                   reconnect_attempts, delay, pc, sending, upd_new, upd_removed, last,
                   last_stream_data, last_message_time, ping_task>>

\* ---------------------------- _smart_check_and_load_historical_data, one symbol
\*
\* Step 2 of start() for one desired symbol, on the record of the window
\* maintenance: the symbol is classified from storage (bf.category) and, if it
\* needs loading, _load_symbol_data(symbol, total_hours_needed, force_load=True)
\* runs.  A later start() classifies the symbol again (bf.again).

\* Mutant of check_data_integrity: every closed row of the symbol is counted.
CountAllRows(st, now, hours) == Cardinality(st)

\* check_data_integrity(symbol, hours): the closed rows with
\* now - hours <= timestamp_ms < now.
check_data_integrity(st, now, hours) ==
    Cardinality({k \in st : k >= now - hours * hour_ms /\ k < now})

\* now minus the result of _get_latest_candle_time, NoCandle if it is None.
LatestCandleAge(st, now) ==
    LET latest == Greatest(st, RoundToMinute(now), NoCandle)
    IN  IF latest = NoCandle THEN NoCandle ELSE now - latest

\* The time since the load recorded in last_data_load_time.
SinceLoad(loaded_at, now) ==
    IF loaded_at = NeverLoaded THEN NeverLoaded ELSE now - loaded_at

\* The category of the symbol at time now, last_data_load_time holding loaded_at.
CategoryOf(st, now, loaded_at) ==
    LET hours == total_hours_needed(bf.retention_hours, bf.analysis_hours)
    IN  SmartAnalyze(check_data_integrity(st, now, hours), hours * 60,
                     LatestCandleAge(st, now), SinceLoad(loaded_at, now))

\* start() classifies the symbol.
ReconcileAnalyze ==
    /\ bf.pc = "maintain"
    /\ bf.category = "none"
    /\ bf' = [bf EXCEPT !.category = CategoryOf(bf.stored, bf.now, bf.last_data_load_time),
                        !.began = {}, !.pass_done = NoPass]
    /\ MaintainFrame

\* The symbol is in needs_loading: _load_data_for_pairs(..., load_type="full").
ReconcileFullLoad ==
    /\ bf.category = "needs_loading"
    /\ LoadSymbolData

\* The load is over and the symbol is classified again: by a later start() of
\* this client, or by the start() of a client constructed anew on the same
\* storage, whose last_data_load_time is empty.
ReconcileAnalyzeAgain ==
    /\ bf.pc = "maintain"
    /\ bf.task["loader"] = "done"
    /\ bf.again.category = "none"
    /\ \E anew \in BOOLEAN :
         bf' = [bf EXCEPT
                  !.again = [category |->
                                CategoryOf(bf.stored, bf.now,
                                           IF anew THEN NeverLoaded
                                           ELSE bf.last_data_load_time),
                             anew |-> anew],
                  !.began = {}, !.pass_done = NoPass]
    /\ MaintainFrame

\* --------------------------- the classifier on any storage, and what it starts
\*
\* In this part bf holds the closed rows of one desired symbol, which may be of
\* any age and also later than now, and the outcome of step 2 of start(): the
\* count and the age the classifier worked with, the category, and the load
\* that step 2 starts for the category (bf.path).

\* _get_latest_candle_time: MAX(timestamp_ms) over the closed rows of the
\* symbol, NoCandle if there is none.
get_latest_candle_time(st) ==
    IF st = {} THEN NoCandle ELSE CHOOSE x \in st : \A y \in st : y <= x

\* current_time_ms - latest_candle_time, NoCandle if there is no candle.
CandleAge(st, now) ==
    IF get_latest_candle_time(st) = NoCandle THEN NoCandle
    ELSE now - get_latest_candle_time(st)

AnalyzeFrame ==
    UNCHANGED <<trading_pairs, subsVars, is_running, websocket_connected, websocket,
                reconnect_attempts, delay, pc, sending, upd_new, upd_removed, last,
                last_stream_data, last_message_time, ping_task>>

\* _smart_analyze_pairs_data_status handles the symbol.
AnalyzeStored ==
    /\ bf.pc = "analyze"
    /\ bf.category = "none"
    /\ LET hours    == total_hours_needed(bf.retention_hours, bf.analysis_hours)
           existing == check_data_integrity(bf.stored, bf.now, hours)
           age      == CandleAge(bf.stored, bf.now)
       IN  bf' = [bf EXCEPT
                    !.existing = existing,
                    !.age = age,
                    !.category = SmartAnalyze(existing, hours * 60, age,
                                              SinceLoad(bf.last_data_load_time, bf.now))]
    /\ AnalyzeFrame

\* _smart_check_and_load_historical_data goes on with the lists: a full load
\* for needs_loading, a partial load for partial_data, the update of the recent
\* candles (_update_recent_data_for_pairs) for outdated_data, nothing for
\* has_data.
LoadByCategory ==
    /\ bf.pc = "analyze"
    /\ bf.category # "none"
    /\ bf.path = "none"
    /\ bf' = [bf EXCEPT !.path =
                 CASE bf.category = "needs_loading" -> "full"
                   [] bf.category = "partial_data"  -> "partial"
                   [] bf.category = "outdated_data" -> "tail"
                   [] OTHER                         -> "skip"]
    /\ AnalyzeFrame

\* ------------------------------------------------------------ save_kline_data
\*
\* The two candle tables.  In this part bf holds kline_data and streaming_data
\* as the sequences of their rows in order of insertion, the candle given last
\* to save_kline_data (bf.delivered), the tables as they were before that call
\* (bf.before) and whether the call before it was given the same candle
\* (bf.repeated).

\* The columns of the UNIQUE(symbol, timestamp_ms) constraint.
KeyOf(row) == <<row.symbol, row.timestamp_ms>>

\* INSERT ... ON CONFLICT (symbol, timestamp_ms) DO UPDATE SET ...: the row with
\* the key of the new one takes its values, or the new row is added.
Upsert(table, row) ==
    IF \E i \in DOMAIN table : KeyOf(table[i]) = KeyOf(row)
    THEN [i \in DOMAIN table |-> IF KeyOf(table[i]) = KeyOf(row) THEN row ELSE table[i]]
    ELSE Append(table, row)

\* Mutant of save_kline_data: a plain INSERT into a table without the constraint.
InsertKlineData(db, row, is_closed) ==
    IF is_closed
    THEN [db EXCEPT !.kline_data = Append(@, row)]
    ELSE [db EXCEPT !.streaming_data = Append(@, row)]

\* save_kline_data: a closed candle goes to kline_data, a streaming one to
\* streaming_data.
save_kline_data(db, row, is_closed) ==
    IF is_closed
    THEN [db EXCEPT !.kline_data = Upsert(@, [row EXCEPT !.is_closed = TRUE])]
    ELSE [db EXCEPT !.streaming_data = Upsert(@, row)]

\* check_candle_exists on the table: SELECT 1 FROM kline_data WHERE symbol = ...
\* AND timestamp_ms = ...
CandleExists(db, symbol, timestamp_ms) ==
    \E i \in DOMAIN db.kline_data : KeyOf(db.kline_data[i]) = <<symbol, timestamp_ms>>

\* The tables of bf.
Tables == [kline_data |-> bf.kline_data, streaming_data |-> bf.streaming_data]

\* bf after a call of save_kline_data that left the tables as db.
Delivered(db, row, is_closed) ==
    [bf EXCEPT !.kline_data = db.kline_data,
               !.streaming_data = db.streaming_data,
               !.before = Tables,
               !.delivered = [row |-> row, is_closed |-> is_closed],
               !.repeated = bf.delivered = [row |-> row, is_closed |-> is_closed],
               !.deliveries = @ + 1]

StoreFrame ==
    UNCHANGED <<trading_pairs, subsVars, is_running, websocket_connected, websocket,
                reconnect_attempts, delay, pc, sending, upd_new, upd_removed, last,
                last_stream_data, last_message_time, ping_task>>

\* _handle_message for a kline of a desired symbol: the start of a closed candle
\* is rounded to the minute, that of a streaming one is kept, and the candle is
\* given to save_kline_data.
StoreKline(s, start, close, confirm) ==
    /\ bf.pc = "store"
    /\ bf.deliveries < MaxDeliveries
    /\ LET row == [symbol |-> s,
                   timestamp_ms |-> IF confirm THEN RoundToMinute(start) ELSE start,
                   close_price |-> close, is_closed |-> confirm]
       IN  bf' = Delivered(save_kline_data(Tables, row, confirm), row, confirm)
    /\ StoreFrame

\* _load_full_period for one row of a page: the timestamp is rounded to the
\* minute; the row is skipped if check_candle_exists finds the key, otherwise it
\* goes to save_historical_kline_data, which saves it as a closed candle.
StoreHistorical(s, start, close) ==
    /\ bf.pc = "store"
    /\ bf.deliveries < MaxDeliveries
    /\ LET row == [symbol |-> s, timestamp_ms |-> RoundToMinute(start),
                   close_price |-> close, is_closed |-> TRUE]
       IN  bf' = IF CandleExists(Tables, s, RoundToMinute(start))
                 THEN [bf EXCEPT !.repeated = FALSE, !.deliveries = @ + 1]
                 ELSE Delivered(save_kline_data(Tables, row, TRUE), row, TRUE)
    /\ StoreFrame

\* ------------------------------------------------------ the candle's format

\* formatted_data of _handle_message for a kline with the given start, end and
\* confirm: both times are rounded down to the minute, each on its own, if the
\* candle is closed, and kept as they are otherwise.
FormatTick(start, end, confirm) ==
    [start   |-> IF confirm THEN RoundToMinute(start) ELSE start,
     end     |-> IF confirm THEN RoundToMinute(end) ELSE end,
     confirm |-> confirm]

\* kline_data of _load_full_period for a row with the given timestamp.
FormatHistorical(ts) ==
    [start   |-> RoundToMinute(ts),
     end     |-> RoundToMinute(ts) + minute_ms,
     confirm |-> TRUE]

CandleFrame ==
    UNCHANGED <<trading_pairs, subsVars, is_running, websocket_connected, websocket,
                reconnect_attempts, delay, pc, sending, upd_new, upd_removed, last,
                last_stream_data, last_message_time, ping_task>>

\* _handle_message formats the kline of a tick, saves it with save_kline_data
\* and broadcasts it as kline_update.
FormatLiveTick ==
    /\ bf.pc = "candle"
    /\ bf.source = "tick"
    /\ ~bf.made
    /\ bf' = [bf EXCEPT !.made = TRUE,
                        !.out = FormatTick(bf.start, bf.end, bf.confirm)]
    /\ CandleFrame

\* _load_full_period formats a row of a page that lies in its range and saves
\* it with save_historical_kline_data.
FormatHistoricalRow ==
    /\ bf.pc = "candle"
    /\ bf.source = "backfill"
    /\ ~bf.made
    /\ bf' = [bf EXCEPT !.made = TRUE, !.out = FormatHistorical(bf.start)]
    /\ CandleFrame

\* ----------------------------------------------------- _process_closed_candle
\*
\* In this part bf holds processed_candles, per symbol the closed candles handed
\* to alert_manager.process_kline_data in the order of the calls (bf.handed, with
\* whether the call returned), the keys saved as closed candles, the number of
\* kline_update broadcasts, and the tick handled last.

\* Mutant of ShouldEvaluate: a candle as new as the last one is evaluated too.
EvaluateFromLast(start_time_ms, last_processed) == start_time_ms >= last_processed

\* if start_time_ms > last_processed
ShouldEvaluate(start_time_ms, last_processed) == start_time_ms > last_processed

AlertFrame ==
    UNCHANGED <<trading_pairs, subsVars, is_running, websocket_connected, websocket,
                reconnect_attempts, delay, pc, sending, upd_new, upd_removed, last,
                last_stream_data, last_message_time, ping_task>>

\* Mutant of InWatchlist: the handler takes the tick of any symbol.
AnySymbol(s) == TRUE

\* if symbol not in self.trading_pairs: return
InWatchlist(s) == s \in trading_pairs

\* _handle_message for a kline of the symbol s, read from the open session.  A
\* symbol that is not desired is logged and nothing else is done.  Otherwise the
\* symbol leaves pending and failed and enters subscribed, and its
\* last_stream_data is set.  A closed candle goes to _process_closed_candle: if
\* its rounded start is greater than processed_candles[s] it is handed to
\* process_kline_data and, if that call returns, processed_candles[s] is set to
\* it; if the call raises, the except of _process_closed_candle logs it and the
\* marker stays.  Then the candle is saved and broadcast.
HandleKlineTick(s, start, end, confirm, raises) ==
    /\ bf.pc = "alerts"
    /\ bf.ticks < MaxAlertTicks
    /\ pc.conn = "read"
    /\ websocket = "open"
    /\ is_running
    /\ IF ~InWatchlist(s)
       THEN /\ bf' = [bf EXCEPT
                        !.ticks = @ + 1,
                        !.tick = [symbol |-> s, start |-> start, confirm |-> confirm,
                                  evaluated |-> FALSE, session |-> bf.session]]
            /\ UNCHANGED <<subsVars, last_stream_data>>
       ELSE /\ ConfirmSubscription(s)
            /\ last_stream_data' = last_stream_data \cup {s}
            /\ LET f        == FormatTick(start, end, confirm)
                   evaluate == confirm
                               /\ ShouldEvaluate(f.start, bf.processed_candles[s])
               IN  bf' = [bf EXCEPT
                            !.ticks = @ + 1,
                            !.handed[s] =
                                IF evaluate
                                THEN Append(@, [start |-> f.start, returned |-> ~raises])
                                ELSE @,
                            !.processed_candles[s] =
                                IF evaluate /\ ~raises THEN f.start ELSE @,
                            !.kline_data = IF confirm THEN @ \cup {<<s, f.start>>} ELSE @,
                            !.broadcasts = @ + 1,
                            !.tick = [symbol |-> s, start |-> f.start,
                                      confirm |-> confirm, evaluated |-> evaluate,
                                      session |-> bf.session]]
    /\ last_message_time' = "fresh"
    /\ last' = NoOp
    /\ UNCHANGED <<trading_pairs, is_running, websocket_connected, websocket,
                   reconnect_attempts, delay, pc, sending, upd_new, upd_removed,
                   ping_task>>

\* The session ends and the connection loop opens the next one: the client
\* object and its processed_candles stay.
NextSession ==
    /\ bf.pc = "alerts"
    /\ bf.session < 1
    /\ bf' = [bf EXCEPT !.session = @ + 1]
    /\ AlertFrame

\* ------------------------------------------------------------ specification

\* start() has loaded the watchlist and the history and is in
\* _connect_and_subscribe: with an empty watchlist it returns at once and the
\* connection loop is never created; otherwise the loop task is created and
\* start() waits for the first session.
Init ==
    /\ trading_pairs \in SUBSET Symbols
    /\ subscribed_pairs = {}
    /\ subscription_pending = {}
    /\ failed_subscriptions = {}
    /\ is_running = TRUE
    /\ websocket_connected = FALSE
    /\ websocket = "none"
    /\ reconnect_attempts = 0
    /\ delay = 0
    /\ pc = IF trading_pairs = {}
            THEN [conn |-> "not_started", retry |-> "sleep", upd |-> "idle",
                  start |-> "started"]
            ELSE [conn |-> "connect", retry |-> "not_started", upd |-> "not_started",
                  start |-> "wait_connection"]
    /\ sending = [conn |-> NoSend, retry |-> NoSend, upd |-> NoSend]
    /\ upd_new = {}
    /\ upd_removed = {}
    /\ last = NoOp
    /\ bf = BfIdle
    /\ last_stream_data = {}
    /\ last_message_time = "none"
    /\ ping_task = "none"

\* What the exchange and the network do to the session.
ConnectionFails ==
    \/ ConnectWebsocketFail
    \/ RemoteClose("closed_err")

Next ==
    \/ ConnectWebsocketOk
    \/ reconnect_attempts < MaxConsecutiveFailures /\ ConnectionFails
    \/ BackoffWake
    \/ \E t \in {"conn", "retry", "upd"} : SubscribeSendDone(t)
    \/ SubscriptionRetryWake
    \/ SubscriptionRetryPass
    \/ \E s \in Symbols : HandleMessage(s)
    \/ \E new \in SUBSET (Symbols \ trading_pairs), removed \in SUBSET trading_pairs :
         HandlePairsUpdate(new, removed)
    \/ LoadDataDone
    \/ UnsubscribeSendDone
    \/ RemoteClose("closed_ok")
    \/ \E s \in Symbols : StreamDataAges(s)
    \/ StreamMonitorForceClose
    \/ ReadLoopEnd
    \/ MonitorConnectionStable
    \/ StartSeesConnection
    \/ StartPeriodicTasks
    \/ Stop

\* The whole client, with at most MaxConsecutiveFailures failures in a row.
Spec == Init /\ [][Next]_vars

\* The client with a watchlist that does not change, and with any number of
\* connection failures in a row: the reconnect counter runs up to exhaustion.
NextConn ==
    \/ ConnectWebsocketOk
    \/ ConnectionFails
    \/ BackoffWake
    \/ \E t \in {"conn", "retry"} : SubscribeSendDone(t)
    \/ SubscriptionRetryWake
    \/ SubscriptionRetryPass
    \/ \E s \in Symbols : HandleMessage(s)
    \/ RemoteClose("closed_ok")
    \/ \E s \in Symbols : StreamDataAges(s)
    \/ StreamMonitorForceClose
    \/ ReadLoopEnd
    \/ MonitorConnectionStable
    \/ StartSeesConnection
    \/ StartPeriodicTasks
    \/ Stop

SpecConn == Init /\ [][NextConn]_vars

\* The lengths, in minutes, of the ranges backfilled: none, short ones, around
\* the page limit, and MaxPages pages and more.
RangeMinutes ==
    {0, 1, 7, max_limit - 10, max_limit - 5, max_limit, max_limit + 1,
     MaxPages * max_limit, MaxPages * max_limit + 7}

\* One call _load_full_period(symbol, start, end) on a client that is not
\* streaming, for a range of len minutes from minute first, the exchange holding
\* the minutes lo..hi, storage holding the keys pre.
InitBackfill ==
    /\ trading_pairs = {}
    /\ subscribed_pairs = {}
    /\ subscription_pending = {}
    /\ failed_subscriptions = {}
    /\ is_running = FALSE
    /\ websocket_connected = FALSE
    /\ websocket = "none"
    /\ reconnect_attempts = 0
    /\ delay = 0
    /\ pc = [conn |-> "not_started", retry |-> "not_started", upd |-> "not_started",
             start |-> "not_started"]
    /\ sending = [conn |-> NoSend, retry |-> NoSend, upd |-> NoSend]
    /\ upd_new = {}
    /\ upd_removed = {}
    /\ last = NoOp
    /\ last_stream_data = {}
    /\ last_message_time = "none"
    /\ ping_task = "none"
    /\ \E first \in {3, 60}, len \in RangeMinutes, newest \in BOOLEAN :
       \E lo \in {0, first, first + 2}, hi \in {first + len - 1, first + len + 4} :
       \E pre \in {{}, MinuteStamps(first, first + Min(len, 2) - 1)} :
         bf = [pc |-> "request",
               start_time_ms |-> first * minute_ms,
               end_time_ms |-> (first + len) * minute_ms,
               current_start |-> first * minute_ms,
               exch_lo |-> lo, exch_hi |-> hi, newest |-> newest,
               pre |-> pre, stored |-> pre,
               total_loaded |-> 0, pages |-> 0, result |-> "none",
               response |-> "none", call |-> 1,
               first_stored |-> {}, first_result |-> "none"]

NextBackfill ==
    \/ BackfillPage
    \/ BackfillRequestFails
    \/ BackfillLoopExit
    \/ BackfillAgain

SpecBackfill == InitBackfill /\ [][NextBackfill]_vars

\* The settings tried: the defaults (2 h retention, 1 h analysis) and a window
\* of more than max_limit minutes.
SettingsChoices == {<<2, 1>>, <<16, 1>>}

\* What the window of the symbol holds at the start, as the minutes missing
\* from it: nothing, the oldest minute (a bad minute), a run of minutes after a
\* reconnect, or everything (a symbol just added).
GapChoices(first, n) ==
    {{}, MinuteStamps(first, first), MinuteStamps(first + 5, first + 15),
     MinuteStamps(first, first + n - 1)}

\* The client has been streaming the symbol; the range manager, the cleanup
\* task and a loader for the symbol may run at any time from now on.
InitMaintain ==
    /\ trading_pairs = {1}
    /\ subscribed_pairs = {}
    /\ subscription_pending = {}
    /\ failed_subscriptions = {}
    /\ is_running = FALSE
    /\ websocket_connected = FALSE
    /\ websocket = "none"
    /\ reconnect_attempts = 0
    /\ delay = 0
    /\ pc = [conn |-> "not_started", retry |-> "not_started", upd |-> "not_started",
             start |-> "not_started"]
    /\ sending = [conn |-> NoSend, retry |-> NoSend, upd |-> NoSend]
    /\ upd_new = {}
    /\ upd_removed = {}
    /\ last = NoOp
    /\ last_stream_data = {}
    /\ last_message_time = "none"
    /\ ping_task = "none"
    /\ \E hrs \in SettingsChoices, newest \in BOOLEAN :
         LET now   == 1200 * minute_ms + 30000
             n     == (hrs[1] + hrs[2]) * 60
             first == now \div minute_ms - n
         IN  \E gap \in GapChoices(first, n) :
               bf = [pc |-> "maintain", now |-> now, steps |-> 0,
                     retention_hours |-> hrs[1], analysis_hours |-> hrs[2],
                     stored |-> MinuteStamps(first, first + n - 1) \ gap,
                     exch_lo |-> 0, exch_hi |-> now \div minute_ms,
                     newest |-> newest,
                     task |-> [mgr |-> "sleep", loader |-> "idle"],
                     call |-> [mgr |-> NoCall, loader |-> NoCall],
                     mgr_wake |-> now, cleanup_wake |-> now,
                     began |-> {}, pass_done |-> NoPass,
                     last_data_load_time |-> NeverLoaded]

NextMaintain ==
    \/ RangeManagerPass
    \/ LoadSymbolData
    \/ \E t \in Tasks : ResumeLoad(t)
    \/ StoreClosedCandle
    \/ DataCleanup
    \/ ClockAdvance

SpecMaintain == InitMaintain /\ [][NextMaintain]_vars

\* The assignments of ages to the symbols 1..n, by increasing age (the tick
\* counts symbols, their order does not matter): never seen first.
RECURSIVE AgeAssignments(_)
AgeAssignments(n) ==
    IF n = 0 THEN {<<>>}
    ELSE {Append(a, x) : a \in AgeAssignments(n - 1), x \in AgeChoices} \cap
         {a \in [1..n -> AgeChoices] : \A k \in 1..(n - 1) : a[k] <= a[k + 1]}

\* The client runs with n desired symbols, connected or never connected, the
\* stream monitor asleep.
InitHealth ==
    /\ \E n \in 0..MaxHealthSymbols : trading_pairs = 1..n
    /\ subscribed_pairs = {}
    /\ subscription_pending = {}
    /\ failed_subscriptions = {}
    /\ is_running = TRUE
    /\ websocket \in {"none", "open"}
    /\ websocket_connected = (websocket = "open")
    /\ reconnect_attempts = 0
    /\ delay = 0
    /\ pc = [conn |-> IF websocket = "open" THEN "read" ELSE "not_started",
             retry |-> "sleep", upd |-> "idle", start |-> "started"]
    /\ sending = [conn |-> NoSend, retry |-> NoSend, upd |-> NoSend]
    /\ upd_new = {}
    /\ upd_removed = {}
    /\ last = NoOp
    /\ last_stream_data = {}
    /\ last_message_time = IF websocket = "open" THEN "fresh" ELSE "none"
    /\ ping_task = IF websocket = "open" THEN "running" ELSE "none"
    /\ \E age \in AgeAssignments(Cardinality(trading_pairs)) :
         bf = [pc |-> "health", phase |-> "sleep", age |-> age,
               snapshot |-> NoSnapshot, decision |-> NoDecision]

NextHealth ==
    \/ StreamMonitorSnapshot
    \/ StreamMonitorDecide
    \/ PairsRemoved
    \/ UnsubscribeSendDone

SpecHealth == InitHealth /\ [][NextHealth]_vars

\* ------------------------------------------------------------------ claims

PairwiseDisjoint ==
    /\ subscription_pending \cap subscribed_pairs = {}
    /\ subscription_pending \cap failed_subscriptions = {}
    /\ subscribed_pairs \cap failed_subscriptions = {}

\* No subscription operation is in progress in a connected session.
AtRest ==
    /\ websocket_connected
    /\ pc.conn = "read"
    /\ pc.retry \in {"sleep", "awake", "not_started"}
    /\ pc.upd \in {"idle", "not_started"}

\* C1: in the state a subscription operation leaves when it completes (the
\* per-session subscribe, handle_pairs_update, a retry pass, the handling of a
\* tick), no symbol is in two of pending, subscribed and failed.
C1_DisjointAfterOperation ==
    last.op \in {"session_subscribe", "pairs_update", "retry", "tick"}
        => PairwiseDisjoint

\* C2: at rest, pending, subscribed and failed together are exactly the desired
\* set.
C2_PartitionAtRest ==
    AtRest =>
        subscription_pending \cup subscribed_pairs \cup failed_subscriptions
            = trading_pairs

\* C3: in every state, also in the middle of an operation, no symbol is both in
\* subscribed and in failed.
C3_SubscribedNotFailed ==
    subscribed_pairs \cap failed_subscriptions = {}

\* C4: the loop sleeps min(5*n, 60) seconds when the counter is n in 1..10; it
\* stops itself only when the counter has passed 10, it is then stopped with the
\* service no longer running, and a stopped loop never connects again.
C4_BackoffThenStop ==
    [][ /\ pc'.conn = "backoff" =>
              /\ reconnect_attempts' \in 1..10
              /\ delay' = IF 5 * reconnect_attempts' < 60
                          THEN 5 * reconnect_attempts' ELSE 60
        /\ reconnect_attempts' > 10 => pc'.conn = "stopped" /\ ~is_running'
        /\ (pc.conn # "stopped" /\ pc'.conn = "stopped" /\ is_running)
              => reconnect_attempts' > 10
        /\ pc.conn = "stopped" => pc'.conn = "stopped" ]_vars

\* C4 witness: the loop has slept after each of 10 failures and stopped at the 11th.
C4_Witness ==
    pc.conn = "stopped" /\ reconnect_attempts = 11 /\ last.op \in {"session_end", "connect_failed"}

\* C5: whenever the read loop of a session ends while the service is running, the
\* loop increments the counter and sleeps min(5*counter, 60) before it connects
\* again (or stops, the counter having passed 10): it never goes straight to the
\* next connect.
C5_BackoffOnEverySessionEnd ==
    [][ (pc.conn = "read" /\ pc'.conn # "read" /\ is_running) =>
            /\ reconnect_attempts' = reconnect_attempts + 1
            /\ \/ /\ pc'.conn = "backoff"
                  /\ delay' = IF 5 * reconnect_attempts' < 60
                              THEN 5 * reconnect_attempts' ELSE 60
               \/ pc'.conn = "stopped" /\ reconnect_attempts' > 10 ]_vars

\* C6 as claimed: when the per-session subscribe completes, subscribed is empty
\* and every desired symbol is in pending or in failed.
C6_AllDesiredPendingOrFailed ==
    [][ (pc.conn = "subscribe" /\ pc'.conn = "read") =>
            /\ subscribed_pairs' = {}
            /\ trading_pairs' \subseteq
                  subscription_pending' \cup failed_subscriptions' ]_vars

\* C7: after the handling of a tick for a desired symbol that was in pending or
\* in failed, the symbol is in subscribed and in neither pending nor failed.
C7_TickPromotes ==
    (last.op = "tick" /\ last.was # {}) =>
        /\ last.syms \subseteq subscribed_pairs
        /\ last.syms \cap (subscription_pending \cup failed_subscriptions) = {}

\* C7 witness: a tick has been handled for a symbol that was in failed.
C7_Witness ==
    last.op = "tick" /\ "failed" \in last.was

\* C8: after a retry pass whose send succeeded, the symbols it took from failed
\* are in pending and not in failed.
C8_RetryMovesToPending ==
    (last.op = "retry" /\ last.ok) =>
        /\ last.syms \subseteq subscription_pending
        /\ last.syms \cap failed_subscriptions = {}

\* C6 amended: a new session starts with the three sets empty and a subscribe of
\* the desired set as it is at that moment; subscribed stays empty during that
\* subscribe, and when it completes every symbol of that set is in pending or in
\* failed (or has been taken from failed by a retry pass still in flight).
C6_SnapshotPendingOrFailed ==
    [][ /\ (pc.conn = "connect" /\ pc'.conn \in {"subscribe", "read"}) =>
              /\ subscribed_pairs' = {}
              /\ subscription_pending' = {}
              /\ failed_subscriptions' = {}
              /\ sending'.conn.list = trading_pairs
              /\ pc'.conn = "read" <=> trading_pairs = {}
        /\ pc'.conn = "subscribe" => subscribed_pairs' = {}
        /\ (pc.conn = "subscribe" /\ pc'.conn = "read") =>
              /\ subscribed_pairs' = {}
              /\ sending.conn.list \subseteq
                    subscription_pending' \cup failed_subscriptions'
                        \cup sending'.retry.list ]_vars

\* C6 witness: a per-session subscribe has completed while a symbol added to the
\* desired set during it is in none of the sets.
C6_Witness ==
    /\ last.op = "session_subscribe"
    /\ last.syms # {}
    /\ subscribed_pairs = {}
    /\ ~(trading_pairs \subseteq subscription_pending \cup failed_subscriptions)

\* C9 as claimed: a symbol pending in a running, connected session eventually is
\* in failed, unless a tick confirms it, it is removed or the service stops.
C9_PendingEventuallyFailed ==
    \A s \in Symbols :
        (s \in subscription_pending /\ is_running /\ websocket_connected)
            ~> (\/ s \in failed_subscriptions
                \/ s \in subscribed_pairs
                \/ s \notin trading_pairs
                \/ ~is_running)

\* C9 amended: a symbol leaves pending only when a tick for it is handled or
\* when a new session clears the sets, and it enters failed only when a subscribe
\* send of a batch that holds it raises: no pass of time moves it.
C9_PendingUntilTickOrNewSession ==
    [][ \A s \in Symbols :
          /\ (s \in subscription_pending /\ s \notin subscription_pending') =>
                \/ last'.op = "tick" /\ s \in last'.syms
                \/ last'.op = "connected"
          /\ (s \notin failed_subscriptions /\ s \in failed_subscriptions') =>
                \E t \in {"conn", "retry", "upd"} :
                    /\ pc[t] = "subscribe"
                    /\ s \in sending[t].batch
                    /\ sending'[t] # sending[t]
                    /\ subscription_pending' = subscription_pending ]_vars

\* C9 witness: a retry pass has gone by in a running, connected session and
\* found nothing to do while a symbol is pending and unconfirmed.
C9_Witness ==
    /\ last.op = "retry_idle"
    /\ is_running /\ websocket_connected
    /\ subscription_pending \ subscribed_pairs # {}
    /\ failed_subscriptions = {}

\* The minutes of [start, end) the exchange holds.
Available == InRange(MinuteStamps(bf.exch_lo, bf.exch_hi))

\* C10: a call that returns True on a storage that held nothing leaves exactly
\* the N candles the exchange has in [start, end) stored in that range.
C10_BackfillComplete ==
    (bf.pc = "done" /\ bf.result = "true" /\ bf.pre = {}) =>
        Cardinality(InRange(bf.stored)) = Cardinality(Available)

C12_FalseOnlyOnStatusOrRetCode ==
    bf.pc = "done" =>
        (bf.result = "false" <=> bf.response \in {"http_status", "ret_code"})

\* C12 amended: a request that gives a non-200 status or a non-zero retCode, or
\* that raises, ends the call at once with False (no retry); the call returns
\* True in every other case, also when nothing was written.
C12_FalseOnAnyFailedRequest ==
    /\ bf.response \in FailedResponses => bf.pc = "done" /\ bf.result = "false"
    /\ bf.pc = "done" => (bf.result = "false" <=> bf.response \in FailedResponses)
    /\ bf.pc = "done" => bf.result \in {"true", "false"}

\* C12 witness: a request raised after a page had been stored, and the call
\* returned False.
C12_Witness ==
    /\ bf.pc = "done" /\ bf.result = "false"
    /\ bf.response = "exception"
    /\ bf.pages >= 1

\* The tasks suspended inside _load_full_period for the symbol.
InFlight == {t \in Tasks : bf.task[t] \in {"load_bf", "pass_bf"}}

\* C13: at no time are two backfills in flight for the same symbol: a task
\* starts _load_full_period for the symbol only when no other task is inside
\* one for it.
C13_OneBackfillPerSymbol ==
    bf.pc = "maintain" => (bf.began # {} => InFlight \subseteq bf.began)

\* The window of a pass at time now: [m - total_hours, m), m the running minute.
WindowStart(now) == RoundToMinute(now) - total_hours * hour_ms

InWindow(k, now) == k >= WindowStart(now) /\ k < RoundToMinute(now)

\* C14: when a pass of _maintain_exact_data_range completes, storage holds no
\* candle of the symbol outside the window the pass computed.
C14_NothingOutsideWindowAfterPass ==
    (bf.pc = "maintain" /\ bf.pass_done.task # "none") =>
        \A k \in bf.stored : k >= bf.pass_done.start /\ k < bf.pass_done.end

\* C15: a gap in the window that the exchange can supply is filled by the
\* periodic window maintenance.  A minute of the window that will have left it
\* when the range manager runs next (data_range_check_interval later) can only
\* be filled by the pass that completes now: after a pass of the range manager
\* whose requests all succeeded, no such minute the exchange holds is missing.
C15_GapFilledByPass ==
    (bf.pc = "maintain" /\ bf.pass_done.task = "mgr" /\ bf.pass_done.ok) =>
        \A k \in MinuteStamps(bf.exch_lo, bf.exch_hi) :
            (/\ k >= bf.pass_done.start
             /\ k < bf.pass_done.end
             /\ k < bf.pass_done.start + data_range_check_interval * 1000)
            => k \in bf.stored

\* C16: no candle inside the current window is deleted, by the hourly cleanup
\* or by window maintenance.
C16_NoDeletionInsideWindow ==
    [][bf.pc = "maintain" =>
         \A k \in bf.stored \ bf'.stored : ~InWindow(k, bf.now)]_vars

C18_ReconnectAboveShares ==
    (bf.pc = "health" /\ bf.decision.made /\ bf.decision.transport) =>
        /\ bf.decision.close <=>
              \/ 10 * Cardinality(bf.snapshot.critical) > 3 * bf.decision.n
              \/ 2 * Cardinality(bf.snapshot.inactive) > bf.decision.n
        /\ bf.decision.n = 0 => ~bf.decision.close

\* C18, amended: with the lists of the snapshot and n the size of the desired
\* set when the tick decides, close() is called if and only if there is a
\* transport and either at least one symbol and at least 30% of n are critical
\* or more than 50% of n are stale; it is never called when the desired set was
\* empty at the snapshot.
C18_ReconnectFromShare ==
    (bf.pc = "health" /\ bf.decision.made) =>
        /\ bf.decision.close <=>
              /\ bf.decision.transport
              /\ \/ /\ Cardinality(bf.snapshot.critical) >= 1
                    /\ 10 * Cardinality(bf.snapshot.critical) >= 3 * bf.decision.n
                 \/ 2 * Cardinality(bf.snapshot.inactive) > bf.decision.n
        /\ bf.snapshot.desired = {} => ~bf.decision.close

\* The tick closes the transport with exactly 30% of ten symbols critical.
C18_Witness ==
    /\ bf.pc = "health" /\ bf.decision.made /\ bf.decision.close
    /\ bf.decision.n = 10
    /\ Cardinality(bf.snapshot.critical) = 3
    /\ websocket = "closed_ok"

\* C19: after the stream monitor has closed the transport of a running client,
\* the connection loop eventually opens a new session and calls
\* _subscribe_to_pairs for the whole desired set, unless the client stops first
\* (stop(), or the reconnect attempts run out).
C19_ReconnectAfterForceClose ==
    (last.op = "force_close" /\ is_running)
        ~> (\/ /\ last.op = "connected"
               /\ websocket = "open"
               /\ sending.conn.list = trading_pairs
            \/ ~is_running)

\* The monitor has just closed the transport of a running session that was in
\* its read loop.
C19_Witness ==
    /\ last.op = "force_close"
    /\ is_running
    /\ pc.conn = "read"
    /\ websocket = "closed_ok"
    /\ websocket_connected

\* C20: a connected session that has had no message for more than 90 s gets a
\* connection_status "warning", and one silent for more than 300 s is torn down:
\* its transport is closed, with no transport error needed.  (A message that
\* arrives, or the end of the client, ends the obligation.)
C20_SilentSessionTornDown ==
    /\ (pc.conn = "read" /\ websocket = "open" /\ is_running
          /\ last_message_time = "warning")
         ~> (\/ last.op = "silence_warning"
             \/ last_message_time = "fresh"
             \/ websocket # "open"
             \/ ~is_running)
    /\ (pc.conn = "read" /\ websocket = "open" /\ is_running
          /\ last_message_time = "force")
         ~> (\/ websocket # "open"
             \/ last_message_time = "fresh"
             \/ ~is_running)

\* Every task that can run is eventually run: timers fire, sends and connects
\* return or raise, the loops take their next step, and time passes: an entry of
\* last_stream_data gets stale.  Nothing is assumed of the exchange (ticks,
\* closes), of the watchlist or of stop().
Fairness ==
    /\ WF_vars(ConnectWebsocketOk \/ ConnectWebsocketFail)
    /\ WF_vars(BackoffWake)
    /\ WF_vars(ReadLoopEnd)
    /\ \A t \in {"conn", "retry", "upd"} : WF_vars(SubscribeSendDone(t))
    /\ WF_vars(SubscriptionRetryWake)
    /\ WF_vars(SubscriptionRetryPass)
    /\ WF_vars(LoadDataDone)
    /\ WF_vars(UnsubscribeSendDone)
    /\ WF_vars(StartSeesConnection)
    /\ WF_vars(StartPeriodicTasks)
    /\ WF_vars(StreamMonitorForceClose)
    /\ \A s \in Symbols : WF_vars(StreamDataAges(s))

FairSpec == Init /\ [][Next]_vars /\ Fairness

\* The same for the client whose watchlist does not change.
FairSpecConn == Init /\ [][NextConn]_vars /\ Fairness

\* The client with the clock of last_message_time: sessions may fall silent and
\* _monitor_connection wakes every 30 s.  The watchlist changes once, by losing
\* all its pairs.
NextSilence ==
    \/ NextConn
    \/ HandlePairsUpdate({}, trading_pairs)
    \/ UnsubscribeSendDone
    \/ OtherMessage
    \/ MessageTimeAges
    \/ MonitorConnectionSilent

FairSpecSilence ==
    /\ Init /\ [][NextSilence]_vars
    /\ Fairness
    /\ WF_vars(MonitorConnectionSilent)

\* ---------------------------------------------------- messages that raise

\* The client whose watchlist does not change, with inbound messages whose
\* handling raises.
NextMessages ==
    \/ NextConn
    \/ \E s \in Symbols, p \in RaisePoints : HandleMessageRaises(s, p)

SpecMessages == Init /\ [][NextMessages]_vars

\* C21: a message that is not valid JSON, or whose handling raises, is skipped:
\* the session stays connected, the read loop goes on with the next message and
\* the reconnect counter is unchanged.
C21_BadMessageSkipped ==
    [][last'.op = "message_skipped" =>
          /\ websocket_connected /\ websocket_connected'
          /\ websocket' = "open"
          /\ pc'.conn = "read"
          /\ is_running'
          /\ reconnect_attempts' = reconnect_attempts]_vars

\* A storage error on a tick of a session opened after a failed connect: the
\* counter keeps its value, the session goes on.
C21_Witness ==
    /\ last.op = "message_skipped"
    /\ last.was = {"storage"}
    /\ reconnect_attempts > 0
    /\ websocket_connected
    /\ pc.conn = "read"

\* ------------------------------------------------ connection-status events

\* The step ends a session: the read loop is left and the finally runs.
SessionEnds == last'.op = "session_end"

\* The step gives up reconnecting: the connection loop clears is_running itself.
Exhaustion == is_running /\ ~is_running' /\ last'.op # "stop"

\* The step takes a session to its read loop.
SessionOpens == pc.conn # "read" /\ pc'.conn = "read"

\* C22: a connection-status event is broadcast on every session transition:
\* 'connected' when a session opens, 'disconnected' when a session ends and when
\* the reconnect attempts are exhausted.
C22_StatusEventOnEveryTransition ==
    [][/\ SessionOpens => last'.status = "connected"
       /\ SessionEnds => last'.status = "disconnected"
       /\ Exhaustion => last'.status = "disconnected"]_vars

\* ------------------------------------------------------------- after stop()

\* The step opens a transport.
SessionCreated == websocket # "open" /\ websocket' = "open"

\* C23: after stop() every loop ends, and no new session is opened or reported
\* connected, whatever the connection loop was doing when stop() was called.
\* This is the second half: once is_running is cleared no step opens a
\* transport, sets websocket_connected or broadcasts 'connected'.
C23_NoSessionAfterStop ==
    [][~is_running =>
          /\ ~SessionCreated
          /\ websocket_connected' => websocket_connected
          /\ last'.status # "connected"]_vars

\* ------------------------------------------------------------------ start()

\* start() has set is_running and is about to load the watchlist.
InitStart ==
    /\ trading_pairs = {}
    /\ subscribed_pairs = {}
    /\ subscription_pending = {}
    /\ failed_subscriptions = {}
    /\ is_running = TRUE
    /\ websocket_connected = FALSE
    /\ websocket = "none"
    /\ reconnect_attempts = 0
    /\ delay = 0
    /\ pc = [conn |-> "not_started", retry |-> "not_started", upd |-> "not_started",
             start |-> "load_pairs"]
    /\ sending = [conn |-> NoSend, retry |-> NoSend, upd |-> NoSend]
    /\ upd_new = {}
    /\ upd_removed = {}
    /\ last = NoOp
    /\ bf = [pc |-> "start", data_loading_complete |-> FALSE]
    /\ last_stream_data = {}
    /\ last_message_time = "none"
    /\ ping_task = "none"

NextStart ==
    \/ LoadTradingPairs
    \/ SmartCheckAndLoad
    \/ StartConnectionTimeout
    \/ NextConn

\* The client from the call of start().
SpecStart == InitStart /\ [][NextStart]_vars

\* The steps of start(), in order.
StartOrder ==
    {<<"load_pairs", "history">>, <<"history", "wait_connection">>,
     <<"history", "started">>, <<"wait_connection", "wait_subscription">>,
     <<"wait_subscription", "started">>,
     <<"load_pairs", "failed">>, <<"history", "failed">>, <<"wait_connection", "failed">>}

\* The step creates the periodic tasks and the stream monitor.
PeriodicTasksStart == pc.start # "started" /\ pc'.start = "started"

\* C24: start() runs its steps in order; no session is connected and no tick is
\* processed before data_loading_complete is set; no periodic loop is started
\* before the first session has reached Connected.
C24_StartInOrder ==
    /\ [](websocket # "none" => bf.data_loading_complete)
    /\ [][/\ pc'.start # pc.start => <<pc.start, pc'.start>> \in StartOrder
          /\ last'.op = "tick" => bf.data_loading_complete
          /\ PeriodicTasksStart => websocket # "none"]_vars

\* --------------------------------------------------- the startup classifier

\* The counts the integrity report can show: few candles, counts around the two
\* integrity thresholds, and a full window.
ExistingChoices(expected) ==
    {n \in 0..expected :
        \/ n <= min_candles_for_skip + 1
        \/ 100 * n - partial_min_integrity * expected \in -100..100
        \/ 100 * n - min_integrity_for_skip * expected \in -100..100
        \/ n = expected}

\* Ages of the latest closed candle: none, fresh, around max_data_age_hours, old.
CandleAgeChoices ==
    {NoCandle, 0, 3600000, max_data_age_hours * 3600000,
     max_data_age_hours * 3600000 + 60000, 20 * 3600000}

\* Times since the client last loaded the symbol: never, around the cooldown,
\* longer.
SinceLoadChoices ==
    {NeverLoaded, 600000, data_load_cooldown * 1000 - 1, data_load_cooldown * 1000,
     2 * data_load_cooldown * 1000}

\* start() is at step 2 with one desired symbol.  A candle counted by the report
\* is closed and inside the window, so the latest closed candle is not older
\* than the window; with no candle counted, there is none or an older one.
InitClassify ==
    /\ trading_pairs = {1}
    /\ subscribed_pairs = {}
    /\ subscription_pending = {}
    /\ failed_subscriptions = {}
    /\ is_running = TRUE
    /\ websocket_connected = FALSE
    /\ websocket = "none"
    /\ reconnect_attempts = 0
    /\ delay = 0
    /\ pc = [conn |-> "not_started", retry |-> "not_started", upd |-> "not_started",
             start |-> "history"]
    /\ sending = [conn |-> NoSend, retry |-> NoSend, upd |-> NoSend]
    /\ upd_new = {}
    /\ upd_removed = {}
    /\ last = NoOp
    /\ last_stream_data = {}
    /\ last_message_time = "none"
    /\ ping_task = "none"
    /\ \E st \in SettingsChoices :
         LET hours == total_hours_needed(st[1], st[2])
         IN  \E existing \in ExistingChoices(hours * 60), age \in CandleAgeChoices,
                since_load \in SinceLoadChoices :
               /\ existing > 0 => age # NoCandle /\ age <= hours * 3600000
               /\ existing = 0 => age = NoCandle \/ age >= hours * 3600000
               /\ bf = [pc |-> "classify", hours |-> hours, existing |-> existing,
                        age |-> age, since_load |-> since_load, category |-> "none"]

NextClassify == AnalyzePair

SpecClassify == InitClassify /\ [][NextClassify]_vars

\* C25: the classifier puts the symbol in exactly one of four categories,
\* decided only by its integrity report and data age: has_data iff integrity >=
\* 85 % and existing >= 30 and age <= 6 h; otherwise partial iff existing >= 20
\* and integrity >= 60 % and age <= 6 h; otherwise outdated iff existing >= 30
\* and age > 6 h; otherwise needs full load.
C25_ClassifiedByReportAndAge ==
    bf.pc = "classify" /\ bf.category # "none" =>
        LET age        == IF bf.age = -1 THEN 0 ELSE bf.age
            percent85  == 100 * bf.existing >= 85 * (bf.hours * 60)
            percent60  == 100 * bf.existing >= 60 * (bf.hours * 60)
            sufficient == percent85 /\ bf.existing >= 30 /\ age <= 6 * 3600000
            partial    == bf.existing >= 20 /\ percent60 /\ age <= 6 * 3600000
            outdated   == bf.existing >= 30 /\ age > 6 * 3600000
        IN  /\ bf.category \in {"has_data", "partial_data", "outdated_data", "needs_loading"}
            /\ bf.category = "has_data" <=> sufficient
            /\ bf.category = "partial_data" <=> ~sufficient /\ partial
            /\ bf.category = "outdated_data" <=> ~sufficient /\ ~partial /\ outdated
            /\ bf.category = "needs_loading" <=> ~sufficient /\ ~partial /\ ~outdated

\* ---------------------------------------------------- startup reconciliation

\* start() is at step 2 with one desired symbol; storage holds the whole window
\* of the symbol, the window with a gap, or nothing.
InitReconcile ==
    /\ trading_pairs = {1}
    /\ subscribed_pairs = {}
    /\ subscription_pending = {}
    /\ failed_subscriptions = {}
    /\ is_running = TRUE
    /\ websocket_connected = FALSE
    /\ websocket = "none"
    /\ reconnect_attempts = 0
    /\ delay = 0
    /\ pc = [conn |-> "not_started", retry |-> "not_started", upd |-> "not_started",
             start |-> "history"]
    /\ sending = [conn |-> NoSend, retry |-> NoSend, upd |-> NoSend]
    /\ upd_new = {}
    /\ upd_removed = {}
    /\ last = NoOp
    /\ last_stream_data = {}
    /\ last_message_time = "none"
    /\ ping_task = "none"
    /\ \E hrs \in SettingsChoices, newest \in BOOLEAN :
         LET now   == 1200 * minute_ms + 30000
             n     == (hrs[1] + hrs[2]) * 60
             first == now \div minute_ms - n
         IN  \E gap \in GapChoices(first, n) :
               bf = [pc |-> "maintain", now |-> now, steps |-> 0,
                     retention_hours |-> hrs[1], analysis_hours |-> hrs[2],
                     stored |-> MinuteStamps(first, first + n - 1) \ gap,
                     exch_lo |-> 0, exch_hi |-> now \div minute_ms,
                     newest |-> newest,
                     task |-> [mgr |-> "not_started", loader |-> "idle"],
                     call |-> [mgr |-> NoCall, loader |-> NoCall],
                     mgr_wake |-> now, cleanup_wake |-> now,
                     began |-> {}, pass_done |-> NoPass,
                     last_data_load_time |-> NeverLoaded,
                     empty_storage |-> gap = MinuteStamps(first, first + n - 1),
                     category |-> "none",
                     again |-> [category |-> "none", anew |-> FALSE]]

NextReconcile ==
    \/ ReconcileAnalyze
    \/ ReconcileFullLoad
    \/ ResumeLoad("loader")
    \/ ReconcileAnalyzeAgain
    \/ ClockAdvance

SpecReconcile == InitReconcile /\ [][NextReconcile]_vars

\* The scenario: retention 2 h + analysis 1 h and empty storage (the exchange of
\* the model holds every minute).
EmptyThreeHours ==
    /\ bf.pc = "maintain"
    /\ bf.retention_hours = 2 /\ bf.analysis_hours = 1
    /\ bf.empty_storage

\* C26: with retention 2 h + analysis 1 h and empty storage the symbol is
\* classified 'needs full load'; after the reconciliation the integrity report
\* over the 3 h window shows 180 rows and the data of the symbol classifies as
\* has_data.
C26_FullLoadThenSufficient ==
    EmptyThreeHours =>
        /\ bf.category \in {"none", "needs_loading"}
        /\ (bf.pass_done.task = "loader" /\ bf.pass_done.ok) =>
              Cardinality({k \in bf.stored : k >= bf.pass_done.start
                                             /\ k < bf.pass_done.end}) = 180
        /\ (bf.last_data_load_time # -1 /\ bf.again.category # "none") =>
              bf.again.category = "has_data"

\* ------------------------------------------------- symbols added while running

\* A subscribe command for s is on its way on a transport that is open.
SubscribeIssued(s) ==
    \E t \in {"conn", "retry", "upd"} :
        pc[t] = "subscribe" /\ sending[t].live /\ s \in sending[t].batch

\* C27: a symbol added to the watchlist while the service is running is picked
\* up by the updater and eventually has a subscribe command issued for it on a
\* live session (unless it is removed again or the service stops), also when
\* the service was started with an empty watchlist.
C27_AddedSymbolSubscribed ==
    \A s \in Symbols :
        (s \in trading_pairs /\ is_running)
            ~> (\/ SubscribeIssued(s)
                \/ s \in subscribed_pairs
                \/ s \notin trading_pairs
                \/ ~is_running)

\* ------------------------------------------------------------------- storage

\* The starts of the klines delivered: a minute, an instant inside it, the next
\* minute.
StartChoices == {1200 * minute_ms, 1200 * minute_ms + 1, 1201 * minute_ms}

PriceChoices == {1, 2}

\* No candle delivered yet.
NoCandleDelivered ==
    [row |-> [symbol |-> 0, timestamp_ms |-> 0, close_price |-> 0, is_closed |-> FALSE],
     is_closed |-> FALSE]

\* Empty tables.
InitStore ==
    /\ trading_pairs = Symbols
    /\ subscribed_pairs = {}
    /\ subscription_pending = {}
    /\ failed_subscriptions = {}
    /\ is_running = TRUE
    /\ websocket_connected = FALSE
    /\ websocket = "none"
    /\ reconnect_attempts = 0
    /\ delay = 0
    /\ pc = [conn |-> "not_started", retry |-> "not_started", upd |-> "not_started",
             start |-> "not_started"]
    /\ sending = [conn |-> NoSend, retry |-> NoSend, upd |-> NoSend]
    /\ upd_new = {}
    /\ upd_removed = {}
    /\ last = NoOp
    /\ last_stream_data = {}
    /\ last_message_time = "none"
    /\ ping_task = "none"
    /\ bf = [pc |-> "store", kline_data |-> <<>>, streaming_data |-> <<>>,
             before |-> [kline_data |-> <<>>, streaming_data |-> <<>>],
             delivered |-> NoCandleDelivered, repeated |-> FALSE, deliveries |-> 0]

NextStore ==
    \/ \E s \in Symbols, start \in StartChoices, close \in PriceChoices,
          confirm \in BOOLEAN : StoreKline(s, start, close, confirm)
    \/ \E s \in Symbols, start \in StartChoices, close \in PriceChoices :
          StoreHistorical(s, start, close)

SpecStore == InitStore /\ [][NextStore]_vars

\* C28: kline_data holds at most one closed candle per key (symbol, start_ms);
\* saving a closed candle whose key exists overwrites the row and adds none, so
\* saving the same closed candle a second time leaves storage as the first save
\* left it.
C28_OneRowPerKey ==
    bf.pc = "store" =>
        /\ \A i, j \in DOMAIN bf.kline_data :
              KeyOf(bf.kline_data[i]) = KeyOf(bf.kline_data[j]) => i = j
        /\ (bf.repeated /\ bf.delivered.is_closed) =>
              /\ bf.kline_data = bf.before.kline_data
              /\ bf.streaming_data = bf.before.streaming_data

\* The same closed candle has been saved twice, after a candle of the same key
\* with another price: one row, with the values of the candle saved last.
C28_Witness ==
    /\ bf.pc = "store"
    /\ bf.repeated /\ bf.delivered.is_closed
    /\ bf.deliveries = 3
    /\ Len(bf.kline_data) = 1
    /\ bf.kline_data[1] = bf.delivered.row

\* ------------------------------------------------------ the batched subscribe

\* The sizes of the watchlist: one batch, full batches, and a last short one.
WatchlistSizes ==
    {n \in 1..MaxSubscribeSymbols :
        n \in {1, batch_size, batch_size + 1, 2 * batch_size, MaxSubscribeSymbols}}

\* The connection loop is about to connect, with a watchlist of n symbols.
InitSubscribe ==
    /\ \E n \in WatchlistSizes : trading_pairs = 1..n
    /\ subscribed_pairs = {}
    /\ subscription_pending = {}
    /\ failed_subscriptions = {}
    /\ is_running = TRUE
    /\ websocket_connected = FALSE
    /\ websocket = "none"
    /\ reconnect_attempts = 0
    /\ delay = 0
    /\ pc = [conn |-> "connect", retry |-> "not_started", upd |-> "not_started",
             start |-> "wait_connection"]
    /\ sending = [conn |-> NoSend, retry |-> NoSend, upd |-> NoSend]
    /\ upd_new = {}
    /\ upd_removed = {}
    /\ last = NoOp
    /\ bf = BfIdle
    /\ last_stream_data = {}
    /\ last_message_time = "none"
    /\ ping_task = "none"

\* One session: the connect, the sends of _subscribe_to_pairs, and a transport
\* that may close under them.
NextSubscribe ==
    \/ ConnectWebsocketOk
    \/ SubscribeSendDone("conn")
    \/ \E code \in {"closed_ok", "closed_err"} : RemoteClose(code)

SpecSubscribe == InitSubscribe /\ [][NextSubscribe]_vars

\* The step is the end of a send of the session's _subscribe_to_pairs.
SendEnds == pc.conn = "subscribe" /\ sending'.conn # sending.conn /\ websocket' = websocket

\* C29: _subscribe_to_pairs sends the symbols in batches of at most 50, each
\* symbol in exactly one batch; if the send of a batch errors, every symbol of
\* the batch is added to failed and none to pending, and the remaining batches
\* are still sent.
C29_BatchesOfFifty ==
    /\ [](pc.conn = "subscribe" =>
            /\ Cardinality(sending.conn.batch) \in 1..50
            /\ sending.conn.batch \cap sending.conn.rest = {}
            /\ sending.conn.batch \cup sending.conn.rest \subseteq sending.conn.list
            /\ subscription_pending \cap failed_subscriptions = {}
            /\ subscription_pending \cup failed_subscriptions
                  = sending.conn.list \ (sending.conn.batch \cup sending.conn.rest))
    /\ [][SendEnds =>
            LET b == sending.conn.batch
            IN  /\ \/ /\ sending.conn.live
                      /\ subscription_pending' = subscription_pending \cup b
                      /\ failed_subscriptions' = failed_subscriptions
                   \/ /\ failed_subscriptions' = failed_subscriptions \cup b
                      /\ subscription_pending' = subscription_pending
                /\ IF sending.conn.rest # {}
                   THEN /\ pc'.conn = "subscribe"
                        /\ sending'.conn.batch # {}
                        /\ sending'.conn.batch \subseteq sending.conn.rest
                        /\ sending'.conn.rest = sending.conn.rest \ sending'.conn.batch
                   ELSE /\ pc'.conn = "read"
                        /\ subscription_pending' \cup failed_subscriptions'
                              = sending.conn.list]_vars

\* The first batch of 101 symbols failed and the two that remained were sent.
C29_Witness ==
    /\ pc.conn = "read"
    /\ Cardinality(trading_pairs) = 101
    /\ Cardinality(failed_subscriptions) = 50
    /\ Cardinality(subscription_pending) = 51
    /\ 1 \in failed_subscriptions
    /\ 101 \in subscription_pending

\* ------------------------------------------- the paging loop, any exchange

NoPage == [stamps |-> {}, len |-> 0]

\* One call _load_full_period(symbol, start, end) for a range of up to
\* MaxPagingMinutes minutes, storage empty or holding the first minute.
InitPaging ==
    /\ trading_pairs = {}
    /\ subscribed_pairs = {}
    /\ subscription_pending = {}
    /\ failed_subscriptions = {}
    /\ is_running = FALSE
    /\ websocket_connected = FALSE
    /\ websocket = "none"
    /\ reconnect_attempts = 0
    /\ delay = 0
    /\ pc = [conn |-> "not_started", retry |-> "not_started", upd |-> "not_started",
             start |-> "not_started"]
    /\ sending = [conn |-> NoSend, retry |-> NoSend, upd |-> NoSend]
    /\ upd_new = {}
    /\ upd_removed = {}
    /\ last = NoOp
    /\ last_stream_data = {}
    /\ last_message_time = "none"
    /\ ping_task = "none"
    /\ \E first \in {0, 3}, len \in {0, 1, MaxPagingMinutes} :
       \E pre \in {{}, MinuteStamps(first, first)} :
         bf = [pc |-> "request",
               start_time_ms |-> first * minute_ms,
               end_time_ms |-> (first + len) * minute_ms,
               current_start |-> first * minute_ms,
               pre |-> pre, stored |-> pre,
               total_loaded |-> 0, pages |-> 0, result |-> "none",
               response |-> "none", page |-> NoPage]

NextPaging ==
    \/ BackfillAnyPage
    \/ BackfillRequestFails
    \/ BackfillLoopExit

\* The task the call runs in is scheduled: requests.get returns or raises within
\* its timeout, and asyncio.sleep(0.2) wakes.
FairSpecPaging == InitPaging /\ [][NextPaging]_vars /\ WF_vars(NextPaging)

\* C30: backfill always terminates: every iteration of the paging loop leaves
\* the loop or advances the cursor by at least one minute, whatever rows the
\* exchange returns, so no more pages are asked for than the range has minutes,
\* and the call returns.
C30_BackfillTerminates ==
    /\ [][bf.pc = "request" /\ bf' # bf =>
            \/ bf'.pc = "done"
            \/ bf'.current_start >= bf.current_start + minute_ms]_vars
    /\ [](bf.pc = "request" =>
            bf.current_start >= bf.start_time_ms + bf.pages * minute_ms)
    /\ [](bf.pages * minute_ms <= bf.end_time_ms - bf.start_time_ms)
    /\ <>(bf.pc = "done" /\ bf.result \in {"true", "false"})

\* The loop goes on after a full page none of whose rows lay in the range, and
\* after a page before it.
C30_Witness ==
    /\ bf.pc = "request"
    /\ bf.pages >= 2
    /\ bf.page.len >= PageLimit(bf.current_start - minute_ms, bf.end_time_ms)
    /\ bf.page.stamps # {}
    /\ InRange(bf.page.stamps) = {}
    /\ bf.current_start < bf.end_time_ms

\* ------------------------------------ the rows of a page and the keys written

\* One call _load_full_period(symbol, start, end) as _load_symbol_data makes it:
\* end is the time of the call in ms and start is a number of hours before it,
\* so neither is a whole minute unless the call falls on one.
InitRows ==
    /\ trading_pairs = {}
    /\ subscribed_pairs = {}
    /\ subscription_pending = {}
    /\ failed_subscriptions = {}
    /\ is_running = FALSE
    /\ websocket_connected = FALSE
    /\ websocket = "none"
    /\ reconnect_attempts = 0
    /\ delay = 0
    /\ pc = [conn |-> "not_started", retry |-> "not_started", upd |-> "not_started",
             start |-> "not_started"]
    /\ sending = [conn |-> NoSend, retry |-> NoSend, upd |-> NoSend]
    /\ upd_new = {}
    /\ upd_removed = {}
    /\ last = NoOp
    /\ last_stream_data = {}
    /\ last_message_time = "none"
    /\ ping_task = "none"
    /\ \E first \in {0, 3}, len \in {1, MaxPagingMinutes}, into \in {0, minute_ms \div 4} :
       \E pre \in {{}, MinuteStamps(first + 1, first + 1)} :
         bf = [pc |-> "request",
               start_time_ms |-> first * minute_ms + into,
               end_time_ms |-> (first + len) * minute_ms + into,
               current_start |-> first * minute_ms + into,
               pre |-> pre, stored |-> pre,
               total_loaded |-> 0, pages |-> 0, result |-> "none",
               response |-> "none", page |-> NoPage]

SpecRows == InitRows /\ [][NextPaging]_vars

\* C31: every candle written by backfill(S, t0, t1) has as key a row's
\* timestamp rounded down to the minute, and that key lies in [t0, t1).
C31_WrittenKeysInRange ==
    \A k \in bf.stored \ bf.pre :
        /\ k = RoundToMinute(k)
        /\ k >= bf.start_time_ms
        /\ k < bf.end_time_ms

\* ------------------------------------------------- the window-reconcile pass

\* The window of a pass of _maintain_exact_data_range that starts now.
PassEnd == RoundToMinute(bf.now)
PassStart == PassEnd - total_hours * hour_ms

\* missing_count of the integrity report over the window of a pass that starts
\* now: the minutes of the window less the rows stored in it, not below 0.
PassMissing ==
    Max(0, (PassEnd - PassStart) \div minute_ms
           - Cardinality({k \in bf.stored : k >= PassStart /\ k < PassEnd}))

\* The step is a pass of the range manager, from its start to its first
\* suspension inside the backfill or to its end.
ManagerPassStep ==
    /\ bf.pc = "maintain"
    /\ bf.task["mgr"] = "sleep"
    /\ bf'.task["mgr"] = "pass_bf" \/ bf'.pass_done.task = "mgr"

\* C32: in a window-reconcile pass the backfill is invoked if and only if the
\* integrity report over the window shows missing_count > 10; it is invoked
\* with exactly [window.start, window.end), and the integrity of the window is
\* re-checked once if it returns True and not otherwise.
C32_BackfillIffMissing ==
    /\ [][ManagerPassStep =>
            /\ ("mgr" \in bf'.began) <=> (PassMissing > 10)
            /\ bf'.task["mgr"] = "pass_bf" =>
                  /\ bf'.call["mgr"].start_time_ms = PassStart
                  /\ bf'.call["mgr"].end_time_ms = PassEnd
            /\ bf'.pass_done.task = "mgr" =>
                  /\ bf'.pass_done.start = PassStart
                  /\ bf'.pass_done.end = PassEnd
                  /\ bf'.pass_done.loaded <=> (PassMissing > 10)]_vars
    /\ [](bf.pc = "maintain" /\ bf.pass_done.task # "none" =>
            bf.pass_done.rechecks
               = IF bf.pass_done.loaded /\ bf.pass_done.ok THEN 1 ELSE 0)
    /\ [](bf.pc = "maintain" =>
            \A t \in Tasks : bf.task[t] = "pass_bf" =>
               /\ bf.call[t].end_time_ms = RoundToMinute(bf.call[t].end_time_ms)
               /\ bf.call[t].end_time_ms - bf.call[t].start_time_ms
                     = total_hours * hour_ms)

\* A pass of the range manager over a window with more than 10 rows missing has
\* completed: its backfill returned True after a suspension and the window was
\* counted again.
C32_Witness ==
    /\ bf.pc = "maintain"
    /\ bf.pass_done.task = "mgr"
    /\ bf.pass_done.loaded
    /\ bf.pass_done.suspended
    /\ bf.pass_done.ok
    /\ bf.pass_done.rechecks = 1

\* ------------------------------------------------- the reset of the counter

\* C33: the reconnect counter is reset to 0 only when a session reaches
\* 'stable', which _monitor_connection finds while the session goes on; the end
\* of a session does not reset it.
C33_ResetOnlyWhenStable ==
    [][(reconnect_attempts # 0 /\ reconnect_attempts' = 0) =>
            /\ pc.conn = "read"
            /\ pc'.conn = "read"
            /\ websocket_connected']_vars

\* ------------------------------------------------------- the shape of candles

\* The start times of the klines received: on a minute, just after one, inside
\* one, and on its last millisecond.
KlineStarts ==
    {m * minute_ms + into : m \in 0..MaxCandleMinutes,
                            into \in {0, 1, minute_ms \div 2, minute_ms - 1}}

\* The end of a kline of the stream, counted from its start: the last
\* millisecond of the minute, as the exchange sends it, or the start of the
\* next minute, or a millisecond later.
KlineLengths == {minute_ms - 1, minute_ms, minute_ms + 1}

\* A kline has been received and nothing has been done with it yet: a tick of
\* the stream, or a row of a page of the backfill.
InitCandle ==
    /\ trading_pairs = {1}
    /\ subscribed_pairs = {}
    /\ subscription_pending = {}
    /\ failed_subscriptions = {}
    /\ is_running = FALSE
    /\ websocket_connected = FALSE
    /\ websocket = "none"
    /\ reconnect_attempts = 0
    /\ delay = 0
    /\ pc = [conn |-> "not_started", retry |-> "not_started", upd |-> "not_started",
             start |-> "not_started"]
    /\ sending = [conn |-> NoSend, retry |-> NoSend, upd |-> NoSend]
    /\ upd_new = {}
    /\ upd_removed = {}
    /\ last = NoOp
    /\ last_stream_data = {}
    /\ last_message_time = "none"
    /\ ping_task = "none"
    /\ \E start \in KlineStarts :
         \/ \E len \in KlineLengths, confirm \in BOOLEAN :
              bf = [pc |-> "candle", source |-> "tick", start |-> start,
                    end |-> start + len, confirm |-> confirm, made |-> FALSE,
                    out |-> [start |-> 0, end |-> 0, confirm |-> FALSE]]
         \/ bf = [pc |-> "candle", source |-> "backfill", start |-> start,
                  end |-> start + minute_ms - 1, confirm |-> TRUE, made |-> FALSE,
                  out |-> [start |-> 0, end |-> 0, confirm |-> FALSE]]

NextCandle ==
    \/ FormatLiveTick
    \/ FormatHistoricalRow

SpecCandle == InitCandle /\ [][NextCandle]_vars

\* C34: every closed candle that is stored or broadcast, from the backfill or
\* from a live tick with the closed flag, has start_ms % 60000 = 0 and
\* end_ms = start_ms + 60000.
C34_ClosedCandleShape ==
    (bf.pc = "candle" /\ bf.made /\ bf.out.confirm) =>
        /\ bf.out.start % minute_ms = 0
        /\ bf.out.end = bf.out.start + minute_ms

\* ------------------------------------------------- subscribes and the watchlist

\* C35: no subscribe command is issued for a symbol that is not in the desired
\* set: a pass of the retry loop subscribes desired symbols only.
C35_RetryOnlyDesired ==
    [][(pc.retry = "awake" /\ pc'.retry = "subscribe") =>
            sending'.retry.list \subseteq trading_pairs]_vars

\* ------------------------------------------- the evaluation of closed candles

NoTick == [symbol |-> 0, start |-> 0, confirm |-> FALSE, evaluated |-> FALSE,
           session |-> 0]

\* The client has just been constructed (processed_candles is empty, which
\* reads as 0 for every symbol) and its first session is open.
InitAlerts ==
    /\ trading_pairs = Symbols
    /\ subscribed_pairs = {}
    /\ subscription_pending \in {Symbols, {}}
    /\ failed_subscriptions = Symbols \ subscription_pending
    /\ is_running = TRUE
    /\ websocket_connected = TRUE
    /\ websocket = "open"
    /\ reconnect_attempts = 0
    /\ delay = 0
    /\ pc = [conn |-> "read", retry |-> "sleep", upd |-> "idle", start |-> "started"]
    /\ sending = [conn |-> NoSend, retry |-> NoSend, upd |-> NoSend]
    /\ upd_new = {}
    /\ upd_removed = {}
    /\ last = NoOp
    /\ last_stream_data = {}
    /\ last_message_time = "fresh"
    /\ ping_task = "running"
    /\ bf = [pc |-> "alerts", ticks |-> 0, session |-> 0,
             processed_candles |-> [s \in Symbols |-> 0],
             handed |-> [s \in Symbols |-> <<>>],
             kline_data |-> {}, broadcasts |-> 0, tick |-> NoTick]

\* The klines of the stream: of any desired symbol, starting in the minutes
\* 1..MaxAlertMinutes in any order (the exchange sends the last closed candle
\* again after a reconnect), open or closed, the evaluation returning or raising.
\* A symbol may be taken off the watchlist while its ticks still come.
NextAlerts ==
    \/ \E s \in Symbols, m \in 1..MaxAlertMinutes, confirm \in BOOLEAN, raises \in BOOLEAN :
         HandleKlineTick(s, m * minute_ms, m * minute_ms + minute_ms - 1, confirm, raises)
    \/ NextSession
    \/ \E s \in Symbols : HandlePairsUpdate({}, {s})
    \/ UnsubscribeSendDone

SpecAlerts == InitAlerts /\ [][NextAlerts]_vars

\* The start times of the calls of seq, or of those that returned.
StrictlyIncreasing(seq) ==
    \A i \in 1..Len(seq), j \in 1..Len(seq) : i < j => seq[i].start < seq[j].start

Returned(seq) == SelectSeq(seq, LAMBDA c : c.returned)

ConnectionAttempt == pc.conn = "connect" /\ pc'.conn \in {"subscribe", "read", "backoff"}

\* C37: if start() raises because the first session was not connected within
\* the wait limit, the connection loop it spawned stops: after start() has
\* raised no connection attempt is made and no session becomes connected.
C37_NoConnectionAfterFailedStart ==
    [][pc.start = "failed" =>
          /\ ~ConnectionAttempt
          /\ ~SessionCreated
          /\ websocket_connected' => websocket_connected]_vars

\* ------------------------------------------------- the counts of a snapshot

\* C38: in every health snapshot active_pairs + inactive_pairs = total_pairs
\* and critical_pairs = inactive_pairs, the stale timeout and the critical
\* threshold being both 300 s: no symbol is stale without being critical, and
\* the tick never decides through the branch on the inactive pairs.
C38_StaleIsCritical ==
    bf.pc = "health" =>
        /\ bf.snapshot.taken =>
              /\ bf.snapshot.stats.active_pairs + bf.snapshot.stats.inactive_pairs
                    = bf.snapshot.stats.total_pairs
              /\ bf.snapshot.stats.critical_pairs = bf.snapshot.stats.inactive_pairs
              /\ bf.snapshot.critical = bf.snapshot.inactive
              /\ bf.snapshot.stats.total_pairs = Cardinality(bf.snapshot.desired)
        /\ bf.decision.made =>
              /\ bf.decision.branch # "inactive"
              /\ bf.decision.close =>
                    (bf.decision.branch = "critical" /\ bf.decision.transport)

\* A tick has closed the transport with more than half of the symbols stale,
\* some of them active and some more than 300 s old, through the branch on the
\* critical pairs.
C38_Witness ==
    /\ bf.pc = "health"
    /\ bf.decision.made
    /\ bf.decision.close
    /\ bf.decision.branch = "critical"
    /\ 2 * bf.snapshot.stats.inactive_pairs > bf.decision.n
    /\ bf.snapshot.stats.active_pairs > 0
    /\ \E s \in bf.snapshot.inactive : bf.age[s] > stream_timeout_seconds

\* -------------------------------------------- the classifier and stale data

\* The settings tried: hours_needed 4 (the defaults), 6 and 18.
AnalyzeSettings == {<<2, 1>>, <<4, 1>>, <<16, 1>>}

\* start() is at step 2 with one desired symbol.  Storage holds any of: the
\* last k minutes before now; 35 minutes at the old end of the window of the
\* classifier; 35 minutes that are 8 hours old; a row 10 minutes after now.
InitAnalyze ==
    /\ trading_pairs = {1}
    /\ subscribed_pairs = {}
    /\ subscription_pending = {}
    /\ failed_subscriptions = {}
    /\ is_running = TRUE
    /\ websocket_connected = FALSE
    /\ websocket = "none"
    /\ reconnect_attempts = 0
    /\ delay = 0
    /\ pc = [conn |-> "not_started", retry |-> "not_started", upd |-> "not_started",
             start |-> "history"]
    /\ sending = [conn |-> NoSend, retry |-> NoSend, upd |-> NoSend]
    /\ upd_new = {}
    /\ upd_removed = {}
    /\ last = NoOp
    /\ last_stream_data = {}
    /\ last_message_time = "none"
    /\ ping_task = "none"
    /\ \E hrs \in AnalyzeSettings, k \in {0, 1, 29, 30, 31, 240},
          edge \in BOOLEAN, old \in BOOLEAN, future \in BOOLEAN,
          loaded \in BOOLEAN :
         LET m0    == 1200
             now   == m0 * minute_ms + 30000
             hours == total_hours_needed(hrs[1], hrs[2])
             low   == m0 - hours * 60 + 1
         IN  bf = [pc |-> "analyze", now |-> now,
                   retention_hours |-> hrs[1], analysis_hours |-> hrs[2],
                   stored |-> MinuteStamps(m0 - k, m0 - 1)
                              \cup (IF edge THEN MinuteStamps(low, low + 34) ELSE {})
                              \cup (IF old THEN MinuteStamps(m0 - 480, m0 - 446) ELSE {})
                              \cup (IF future THEN MinuteStamps(m0 + 10, m0 + 10) ELSE {}),
                   last_data_load_time |-> IF loaded THEN now - 600000 ELSE NeverLoaded,
                   existing |-> 0, age |-> NoCandle,
                   category |-> "none", path |-> "none"]

NextAnalyze ==
    \/ AnalyzeStored
    \/ LoadByCategory

SpecAnalyze == InitAnalyze /\ [][NextAnalyze]_vars

\* C39: when hours_needed <= max_data_age_hours the classifier never puts a
\* symbol in 'outdated': a symbol with existing >= min_candles has a candle in
\* the last hours_needed hours, so its age is at most hours_needed, and the
\* tail update of startup is not started.
C39_NeverOutdated ==
    (/\ bf.pc = "analyze"
     /\ total_hours_needed(bf.retention_hours, bf.analysis_hours) <= max_data_age_hours
     /\ bf.category # "none") =>
        /\ bf.category # "outdated_data"
        /\ bf.path # "tail"
        /\ bf.existing >= min_candles_for_skip =>
              /\ bf.age # NoCandle
              /\ bf.age <= total_hours_needed(bf.retention_hours, bf.analysis_hours)
                              * hour_ms

\* hours_needed is 6; storage holds 35 candles nearly 6 hours old and 35 that
\* are 8 hours old, and the symbol has been classified and its load chosen.
C39_Witness ==
    /\ bf.pc = "analyze"
    /\ total_hours_needed(bf.retention_hours, bf.analysis_hours) = max_data_age_hours
    /\ bf.existing >= min_candles_for_skip
    /\ bf.age > 5 * hour_ms
    /\ Cardinality(bf.stored) > bf.existing
    /\ bf.path = "full"

\* --------------------------------------------- ticks of symbols not desired

\* The step handles a tick of a symbol that is not in the desired set.
UndesiredTick ==
    /\ bf.pc = "alerts"
    /\ bf'.ticks = bf.ticks + 1
    /\ bf'.tick.symbol \notin trading_pairs

\* C40: a tick whose symbol is not in the desired set changes nothing: the
\* subscription sets, the per-symbol liveness timestamps, the processed-candle
\* markers and storage are unchanged, the alert collaborator is not called and
\* no tick event is broadcast.
C40_UndesiredTickIgnored ==
    [][UndesiredTick =>
          /\ UNCHANGED <<subscribed_pairs, subscription_pending, failed_subscriptions>>
          /\ UNCHANGED last_stream_data
          /\ bf'.processed_candles = bf.processed_candles
          /\ bf'.kline_data = bf.kline_data
          /\ bf'.handed = bf.handed
          /\ bf'.broadcasts = bf.broadcasts
          /\ UNCHANGED trading_pairs]_vars

\* A closed tick newer than the marker has been handled for a symbol that was
\* taken off the watchlist while it was pending, after a tick of the symbol
\* that stayed.
C40_Witness ==
    /\ bf.pc = "alerts"
    /\ bf.tick.symbol \in Symbols \ trading_pairs
    /\ bf.tick.confirm
    /\ bf.tick.start > bf.processed_candles[bf.tick.symbol]
    /\ bf.tick.symbol \in subscription_pending
    /\ bf.broadcasts >= 1
    /\ trading_pairs # {}

====
